---- MODULE Spec2Model ----
(***************************************************************************)
(* Model of the Outlook account-creation automation scripts.               *)
(*                                                                         *)
(* Part 1 (specification Spec): the workflow runners                        *)
(*   comp.py     FixedProductionOutlookCreator.run_fixed_automation         *)
(*   new.py      OutlookCreatorV3.run                                       *)
(*   main.py     CorrectedAppiumOutlookCreator.run_complete_automation      *)
(*   outlook_automation.py  OutlookAccountCreator.run_automation            *)
(* with the driver session they open and close.                            *)
(*                                                                         *)
(* Part 2 (specification SpecExec): the element primitives of comp.py      *)
(*   find_elements_bulletproof / find_element_bulletproof                  *)
(*   click_element_bulletproof, type_text_bulletproof                      *)
(*   click_next_production                                                 *)
(*   the option selection inside step4_details_fixed                       *)
(*   quick_click inside step7_post_captcha                                 *)
(* run against a backend whose every answer is chosen nondeterministically.*)
(*                                                                         *)
(* Part 3 (specification SpecText): text entry                             *)
(*   outlook_automation.py type_text_robust, ultimate_outlook_automation.py*)
(*   focus_clear_and_type, main.py input_text_safely                       *)
(* Part 4 (specification SpecHold): the press-and-hold of the CAPTCHA step *)
(*   new.py long_press_15s_strong, comp.py step6_captcha,                  *)
(*   main.py step5_captcha_challenge / long_press_captcha                  *)
(* Part 5 (specification SpecSel): select_dropdown_option of main.py,      *)
(*   outlook_automation.py and ultimate_outlook_automation.py              *)
(* Part 6 (specifications SpecWait, LiveWait): the bounded waits           *)
(*   comp.py wait_authentication and step7_post_captcha,                   *)
(*   imss.py wait_for_app_load                                             *)
(* Part 7 (specification SpecName): comp.py step5_name, its calls and      *)
(*   sleeps                                                                *)
(* Part 8 (specification SpecGeom): where the press lands                  *)
(*   new.py _center_of / _scroll_into_view / long_press_15s_strong,        *)
(*   comp.py step6_captcha, outlook_automation.py captcha_long_press       *)
(* Part 9 (specification SpecDetails): step4_add_details of                *)
(*   outlook_automation.py and ultimate_outlook_automation.py              *)
(* Part 10 (specification SpecImss): imss.py run_automation with           *)
(*   handle_dialog and check_final_status                                  *)
(***************************************************************************)
EXTENDS Integers, Sequences, FiniteSets, TLC

VARIABLES
    script,     \* which runner is executing: "comp", "new", "main", "outlook"
    pc,         \* position of the runner
    driver,     \* self.driver: "none" (None), "open" (live session), "closed" (quit called)
    opened,     \* number of backend sessions created (webdriver.Remote returned)
    quitCalls,  \* number of driver.quit() calls issued
    idx,        \* 1-based index of the step the loop is at
    started,    \* names of the steps whose function was called, in call order
    log,        \* outcome of every step that returned or raised, in order
    pending,    \* value the runner is returning while its finally block runs
    result,     \* what run gave its caller: "none", "true", "false", "exception"
    escaped,    \* origin of the exception that left run: "none", "setup", "step", "quit"
    phase,      \* Pending, Running, Aborted, Completed, SetupFailed
    \* ---- element primitives (comp.py)
    op,         \* the primitive under execution: "click", "type", "next", "option", "quick"
    epc,        \* position inside the primitive
    loc,        \* the locator (by, value) the caller passed to click / type
    desc,       \* the description argument of type: "year" (year-like) or "other"
    caller,     \* who called click_element_bulletproof: "top" or "next"
    att,        \* loop counter of the click / type attempt loop (0-based)
    curLoc,     \* locator of the running find_elements_bulletproof call
    fAtt,       \* loop counter of find_elements_bulletproof (0-based)
    fRetries,   \* its retry_attempts argument
    findRet,    \* where find_element(s)_bulletproof returns to
    qn,         \* number of find_element(s)_bulletproof calls made during the current call
    qStart,     \* value of qn when the current attempt began
    elements,   \* raw result of the last backend query
    found,      \* value returned by find_elements_bulletproof
    element,    \* the local variable holding the handle of the current attempt
    actedLog,   \* every element interaction of the call: handle, attempt, qStart
    typeTrace,  \* what the last type attempt did (focus, clear, inject)
    sIdx,       \* index of the strategy / xpath the caller's loop is at
    tapResults, \* click_next_production: result of click per strategy tried
    yielded,    \* strategies whose query produced a viable candidate
    keys,       \* key codes sent with driver.press_keycode by click_next_production
    eresult,    \* what the primitive gave its caller: "none", "Success", "Failure", "raised"
    excKind,    \* class of the exception that left it: "none", "stale", "error"
    \* ---- text entry (outlook_automation.py, ultimate_outlook_automation.py, main.py)
    tv,         \* whose text-entry function runs: "outlook", "ultimate", "main"
    tpc,        \* position inside the function
    tEl,        \* the element argument: "el" or "none" (None)
    tText,      \* the text argument, a sequence of one-character strings
    tDesc,      \* the description argument: "Year" or "Other"
    field,      \* content of the text field on the device
    tLenRead,   \* len(current_text) read by the backspace fallback, -1 before
    tTrace,     \* backend calls of the running call: [c |-> call, r |-> outcome, n |-> presses]
    tKeys,      \* key codes pressed by the key-code tactic of the running call
    tResults,   \* return values of the finished calls, in order
    \* ---- press and hold (new.py, comp.py, main.py)
    hv,         \* whose CAPTCHA step runs: "new", "comp", "main"
    hpc,        \* position inside it
    hReq,       \* the hold the step asks for, in ms
    hTarget,    \* the resolved target: "el", or "none" when nothing was found
    hSel,       \* main.py: index of the selector the loop is at
    hK,         \* index of the next gesture to attempt on the resolved element
    hPrelude,   \* outcomes of hide_keyboard and _scroll_into_view (new.py)
    hTiers,     \* the gestures attempted: [tier, at, ms, r]
    hResult,    \* what the step gave its caller: "none", "Success", "Failure", "raised"
    hExc,       \* class of the exception that left it
    \* ---- dropdown selection (main.py, outlook_automation.py, ultimate_outlook_automation.py)
    sv,         \* whose select_dropdown_option runs: "main", "outlook", "ultimate"
    spc,        \* position inside it
    sPass,      \* the match pass under way: 1 before the scroll, 2 after it
    sStrat,     \* index of the selector the pass is at
    sTrace,     \* what the call did so far: [ev, pass, strat, r]
    sResult,    \* what it gave its caller: "none", "Success", "Failure", "raised"
    \* ---- waits (comp.py wait_authentication / step7_post_captcha, imss.py wait_for_app_load)
    wv,         \* which wait runs: "post" (comp.py) or "load" (imss.py)
    wpc,        \* per run: position inside it
    wPoll,      \* per run: loop counter of the poll loop (0-based)
    wGaveUp,    \* per run: the poll loop ran out with the indicator still there
    wNow,       \* per run: time.time() in units of 100 ms
    wStart,     \* per run: start = time.time() of the burst loop
    wPasses,    \* per run: passes of the burst loop
    wRet,       \* per run: what the function gave its caller
    \* ---- the name step (specification SpecName)
    npc,        \* position inside step5_name
    nField,     \* which of the two EditText elements is being filled: 1, 2
    nDel,       \* DEL presses issued by the running backspace loop
    nLen,       \* number of characters the fields hold when they are cleared
    nPrev,      \* the event before the last one
    nLast,      \* the last event: a backend call with its outcome, or a sleep
    nResult,    \* what step5_name gave its caller: "none", "True", "False", "raised"
    \* ---- where the press lands (specification SpecGeom)
    gv,         \* which press-and-hold runs: "new", "comp", "outlook"
    gpc,        \* position inside it
    gSize,      \* the window size read at setup: [width, height]
    gRect,      \* location and size of the target on the screen: [x, y, w, h]
    gFound,     \* the lookup resolved the target
    gNudge,     \* the scroll nudge: "none", "skipped", "ok" (swiped), "raised"
    gCenter,    \* the center the code computed for its gestures, <<>> before
    gK,         \* index of the next gesture on the element
    gUsed,      \* the gestures sent with coordinates: [tier, x, y]
    gResult,    \* "none", "True", "False", "raised"
    \* ---- the details step (specification SpecDetails)
    dv,         \* whose step4_add_details runs: "outlook", "ultimate"
    dpc,        \* position inside it
    dPhase,     \* the dropdown under way: "day", "month"
    dSel,       \* index of the dropdown selector the loop is at
    dDay,       \* day_success
    dMonth,     \* month_success
    dExc,       \* a dropdown lookup raised: "none", "day", "month"
    dYear,      \* the year entry: "none", "notfound", "typefail", "ok"
    dNext,      \* what the Next click returned: "none", "True", "False"
    dResult,    \* what the step gave its caller: "none", "True", "False", "raised"
    \* ---- the IMSS workflow (specification SpecImss)
    ipc,        \* position inside run_automation
    iSel,       \* index of the selector the running loop is at
    iRet,       \* what each step gave run_automation: "none", "True", "False", "raised"
    iDialog,    \* dialog_found
    iTapped,    \* an accept button was tapped
    iIndicator, \* a success indicator was found
    iExc,       \* the except clause of run_automation ran
    iDriver,    \* self.driver is set
    iDebug,     \* debug_mode
    iShots,     \* the screenshots asked of the driver
    iQuit,      \* driver.quit(): "none", "ok", "raise"
    iResult     \* what run_automation returned: "none", "True", "False"

runVars == <<script, pc, driver, opened, quitCalls, idx, started, log, pending,
             result, escaped, phase>>

execVars == <<op, epc, loc, desc, caller, att, curLoc, fAtt, fRetries, findRet, qn,
              qStart, elements, found, element, actedLog, typeTrace, sIdx, tapResults,
              yielded, keys, eresult, excKind>>

textVars == <<tv, tpc, tEl, tText, tDesc, field, tLenRead, tTrace, tKeys, tResults>>

\* What an action of one part leaves alone.
holdVars == <<hv, hpc, hReq, hTarget, hSel, hK, hPrelude, hTiers, hResult, hExc>>

selVars == <<sv, spc, sPass, sStrat, sTrace, sResult>>

waitVars == <<wv, wpc, wPoll, wGaveUp, wNow, wStart, wPasses, wRet>>

nameVars == <<npc, nField, nDel, nLen, nPrev, nLast, nResult>>

geomVars == <<gv, gpc, gSize, gRect, gFound, gNudge, gCenter, gK, gUsed, gResult>>

detailVars == <<dv, dpc, dPhase, dSel, dDay, dMonth, dExc, dYear, dNext, dResult>>

imssVars == <<ipc, iSel, iRet, iDialog, iTapped, iIndicator, iExc, iDriver, iDebug, iShots, iQuit, iResult>>

nonRunVars == <<execVars, textVars, holdVars, selVars, waitVars, nameVars, geomVars, detailVars, imssVars>>

nonExecVars == <<runVars, textVars, holdVars, selVars, waitVars, nameVars, geomVars, detailVars, imssVars>>

nonTextVars == <<runVars, execVars, holdVars, selVars, waitVars, nameVars, geomVars, detailVars, imssVars>>

nonHoldVars == <<runVars, execVars, textVars, selVars, waitVars, nameVars, geomVars, detailVars, imssVars>>

nonSelVars == <<runVars, execVars, textVars, holdVars, waitVars, nameVars, geomVars, detailVars, imssVars>>

nonWaitVars == <<runVars, execVars, textVars, holdVars, selVars, nameVars, geomVars, detailVars, imssVars>>

nonNameVars == <<runVars, execVars, textVars, holdVars, selVars, waitVars, geomVars, detailVars, imssVars>>

nonGeomVars == <<runVars, execVars, textVars, holdVars, selVars, waitVars, nameVars, detailVars, imssVars>>

nonDetailVars == <<runVars, execVars, textVars, holdVars, selVars, waitVars, nameVars, geomVars, imssVars>>

nonImssVars == <<runVars, execVars, textVars, holdVars, selVars, waitVars, nameVars, geomVars, detailVars>>

vars == <<runVars, execVars, textVars, holdVars, selVars, waitVars, nameVars, geomVars, detailVars, imssVars>>

Scripts == {"comp", "new", "main", "outlook"}

\* ---------------------------------------------------------------- steps

\* The ordered step list each runner builds.
Steps(s) ==
    CASE s = "comp"    -> <<"Welcome", "Email", "Password", "Details", "Name",
                            "CAPTCHA", "Post-CAPTCHA", "Final Wait">>
      [] s = "new"     -> <<"Welcome", "Email", "Password", "Details", "Name", "CAPTCHA">>
      [] s = "main"    -> <<"Welcome", "Email", "Password", "Details", "CAPTCHA", "Name">>
      [] s = "outlook" -> <<"Welcome", "Email", "Password", "Details", "Name", "CAPTCHA">>

NStepsShort(s) == Len(Steps(s)) - 1

NSteps(s) == Len(Steps(s))

\* What a step function can do to its caller: return True ("ok"), return False
\* ("fail"), or let an exception out ("raise").
StepOutcomes(s, name) ==
    CASE s = "comp" ->
           (CASE name = "Welcome"      -> {"ok", "raise"}   \* always True; driver.tap unguarded
              [] name = "Email"        -> {"ok", "fail"}    \* only bulletproof helpers
              [] name = "Password"     -> {"ok", "fail"}
              [] name = "Details"      -> {"ok", "fail", "raise"}  \* option.click unguarded
              [] name = "Name"         -> {"ok", "fail", "raise"}  \* only Stale is caught
              [] name = "CAPTCHA"      -> {"ok", "raise"}   \* always True; adb run unguarded
              [] name = "Post-CAPTCHA" -> {"ok"}
              [] name = "Final Wait"   -> {"ok"})
      [] s = "new" ->
            IF name = "Welcome" THEN {"ok", "raise"} ELSE {"ok", "fail", "raise"}
      [] s = "main" -> {"ok", "fail", "raise"}   \* find_element_safely catches Timeout only
      [] s = "outlook" -> {"ok", "fail"}         \* every step body is try/except Exception

\* comp.py names its critical steps by a string test; the other runners stop at
\* the first step that returns False.
CriticalSteps == {"Welcome", "Email", "Password"}

Critical(s, name) == IF s = "comp" THEN name \in CriticalSteps ELSE TRUE

\* Mutant: a returned False never stops the run.
StepFalseAbortsNever(s, name) == FALSE

\* Does the runner stop when the step returned False?
StepFalseAborts(s, name) ==
    IF s = "comp" THEN name \in {"Welcome", "Email", "Password"} ELSE TRUE

\* Mutant: comp.py's except branch continues whatever the step.
StepRaiseAlwaysContinues(s, name) ==
    CASE s = "comp"    -> "continue"
      [] s = "new"     -> "propagate"
      [] s = "main"    -> "returnFalse"
      [] s = "outlook" -> "returnFalse"

\* What the runner does when the step raised: "continue" with the next step,
\* "returnFalse", or "propagate" the exception to run's caller.
StepRaiseReaction(s, name) ==
    CASE s = "comp"    -> IF name \notin {"Welcome", "Email", "Password"}
                          THEN "continue" ELSE "returnFalse"
      [] s = "new"     -> "propagate"      \* try/finally without except
      [] s = "main"    -> "returnFalse"    \* outer except Exception
      [] s = "outlook" -> "returnFalse"    \* outer except Exception

\* Mutant: a failed step is executed again instead of moving on.
NextIdxRetry(i, outcome) == IF outcome = "ok" THEN i + 1 ELSE i

\* The for loop's advance: the next iteration takes the next list entry.
NextIdx(i, outcome) == i + 1

\* ---------------------------------------------------------------- setup

\* Exception classes the setup code can see.
ExcClasses == {"WebDriverException", "OtherException"}

\* Does setup call the driver again after webdriver.Remote returned?
SetupConfigures(s) == s \in {"comp", "new", "outlook"}

\* Is an exception of class c caught inside the setup function?
SetupCatches(s, c) ==
    IF s = "comp" THEN TRUE ELSE c = "WebDriverException"

\* Is the call of setup inside run's try block?
SetupInsideTry(s) == s \in {"comp", "main", "outlook"}

\* Is driver.quit() in the finally block wrapped in its own try/except?
QuitGuarded(s) == s \in {"comp", "new", "outlook"}

\* Does the finally block test self.driver before quitting?
QuitTestsDriver(s) == s \in {"comp", "main", "outlook"}

\* ---------------------------------------------------------------- primitives: data

\* Largest number of elements one backend query returns in the model.
MaxElems == 2

\* range(3) of click_element_bulletproof.
ClickAttempts == 3

\* range(3) of type_text_bulletproof.
TypeAttempts == 3

\* retry_attempts default of find_elements_bulletproof.
DefaultRetries == 3

\* Number of locator strategies in click_next_production.
NStrategies == 3

\* Number of xpaths in each list handed to quick_click.
NQuickXPaths == 4

\* range(2) of quick_click: the click is tried at most twice per xpath.
QuickTries == 2

\* KEYCODE_ENTER sent by click_next_production.
KeyEnter == 66

\* What is_displayed() can do on a queried element: True, False, raise
\* StaleElementReferenceException, raise another exception.
DispStates == {"shown", "hidden", "stale", "error"}

\* An element handle: the find call that produced it, its locator, its position
\* in the query result and what is_displayed() does on it.
Handle(q, l, i, d) == [q |-> q, loc |-> l, i |-> i, disp |-> d]

\* What identifies a handle: the find call, the locator and the position.
Ident(h) == [q |-> h.q, loc |-> h.loc, i |-> h.i]

\* Python's None for element variables.
None == [q |-> 0, loc |-> 0, i |-> 0, disp |-> "none"]

\* What one WebDriverWait(...).until(find_elements) can give: TimeoutException
\* (also when the list stayed empty), another exception, or a non-empty list.
QueryOutcomes ==
    {<<"timeout">>, <<"error">>} \cup
    UNION {[1..n -> DispStates] : n \in 1..MaxElems}

IsList(r) == r \notin {<<"timeout">>, <<"error">>}

FindHandlerTimeoutOnly(sig) == IF sig = "timeout" THEN "retry" ELSE "propagate"

\* The except clauses of the retry loop of find_elements_bulletproof:
\* TimeoutException and Exception both go on to the next pass.
FindHandler(sig) ==
    CASE sig = "timeout" -> "retry"
      [] sig = "error" -> "retry"

\* Mutant: a candidate whose is_displayed() raised Stale is kept.
ViableKeepStale(d) == d \in {"shown", "error", "stale"}

\* The filter of find_elements_bulletproof: displayed elements are appended,
\* Stale ones skipped (continue), any other exception appends the element.
Viable(d) == d \in {"shown", "error"}

VisibleElements(els) == SelectSeq(els, LAMBDA e : Viable(e.disp))

\* Mutant: the handle found by an earlier attempt is used again.
ElementReused(prev, fnd) ==
    IF prev # None THEN prev ELSE IF fnd = <<>> THEN None ELSE Head(fnd)

\* find_element_bulletproof: "elements[0] if elements else None", assigned to
\* the attempt's local variable (prev is its old value).
ElementForAttempt(prev, fnd) == IF fnd = <<>> THEN None ELSE Head(fnd)

\* Mutant: only StaleElementReferenceException is caught in the click loop.
ClickHandlerStaleOnly(sig) == IF sig = "stale" THEN "retry" ELSE "propagate"

\* The except clauses of click_element_bulletproof: Stale and every other
\* Exception sleep and continue.
ClickHandler(sig) ==
    CASE sig = "stale" -> "retry"
      [] sig = "error" -> "retry"

\* Mutant: only StaleElementReferenceException is caught in the type loop.
TypeHandlerStaleOnly(sig) == IF sig = "stale" THEN "retry" ELSE "propagate"

\* The except clauses of type_text_bulletproof: both go on with the loop.
TypeHandler(sig) ==
    CASE sig = "stale" -> "retry"
      [] sig = "error" -> "retry"

\* Mutant: the strategy loop goes on after a successful click.
NextAfterClickGoesOn(res) == "continue"

\* click_next_production: "if click(...): return True", else next strategy.
NextAfterClick(res) == IF res THEN "return" ELSE "continue"

\* Mutant: the result of the ENTER press is not looked at.
AfterEnterGivesUp(k) == "Failure"

\* click_next_production after press_keycode(66): "return True" when it
\* returned, bare except: pass and "return False" when it raised.
AfterEnter(k) == IF k = "ok" THEN "Success" ELSE "Failure"

\* step4_details_fixed, first option.click(): only Stale is caught (re-find).
OptionHandlerFirst(sig) == IF sig = "stale" THEN "refind" ELSE "propagate"

\* step4_details_fixed, option.click() inside the except block: nothing is caught.
OptionHandlerSecond(sig) == "propagate"

\* quick_click: Stale re-finds the element, any other exception breaks.
QuickHandler(sig) == IF sig = "stale" THEN "refind" ELSE "break"

\* "year" in description.lower()
YearLike(d) == d = "year"

\* range(15) DEL presses for a year-like field.
YearBackspaces == 15

\* len(current_text) + 5 DEL presses in the fallback clear.
ClearMargin == 5

\* Longest field content the model lets get_attribute("text") report.
MaxTextLen == 2

\* KEYCODE_DEL
KeyDel == 67

TraceNone == [focus |-> "none", native |-> "none", lenRead |-> -1, dels |-> 0,
              send |-> "none", adb |-> "none", sig |-> "none"]

\* Presses of DEL: all `total` succeed, or press k+1 raises after k succeeded.
DelRuns(t, total) ==
    {[t EXCEPT !.dels = k, !.sig = IF k = total THEN "go" ELSE "error"] : k \in 0..total}

\* The clear phase of one type attempt, from a trace whose focus succeeded.
ClearRuns(t, d) ==
    IF YearLike(d)
    THEN DelRuns(t, YearBackspaces)
    ELSE {[t EXCEPT !.native = "ok", !.sig = "go"]}
         \cup UNION {
                \* element.clear() raised (bare except): read the text, press DEL
                {[t EXCEPT !.native = n, !.sig = g] : g \in {"stale", "error"}}
                \cup UNION {DelRuns([t EXCEPT !.native = n, !.lenRead = len],
                                    len + ClearMargin) : len \in 0..MaxTextLen}
              : n \in {"stale", "error"}}

\* Mutant: the adb process is run with check=True, a nonzero exit status raises.
InjectRunsChecked(t) ==
    {[t EXCEPT !.send = "ok", !.sig = "ret_true"]}
    \cup UNION {
           {[t EXCEPT !.send = x, !.adb = "ok", !.sig = "ret_true"],
            [t EXCEPT !.send = x, !.adb = "nonzero", !.sig = "error"],
            [t EXCEPT !.send = x, !.adb = "raise", !.sig = "error"]}
         : x \in {"stale", "error"}}

\* The inject phase: send_keys, then adb on any exception of send_keys.  The
\* adb process is run with check=False: it returns with exit status 0 ("ok")
\* or another one ("nonzero"), or subprocess.run raises (adb missing, the
\* timeout of 8 s).
InjectRuns(t) ==
    {[t EXCEPT !.send = "ok", !.sig = "ret_true"]}
    \cup UNION {
           {[t EXCEPT !.send = x, !.adb = "ok", !.sig = "ret_true"],
            [t EXCEPT !.send = x, !.adb = "nonzero", !.sig = "ret_true"],
            [t EXCEPT !.send = x, !.adb = "raise", !.sig = "error"]}
         : x \in {"stale", "error"}}

\* Every way the body of one type attempt can run on a found element; sig is
\* how it ends: "ret_true", or the exception that reaches the outer handlers.
TypeRuns(d) ==
    {[TraceNone EXCEPT !.focus = f, !.sig = f] : f \in {"stale", "error"}}
    \cup LET cleared == ClearRuns([TraceNone EXCEPT !.focus = "ok"], d)
         IN {t \in cleared : t.sig # "go"}
            \cup UNION {InjectRuns(t) : t \in {c \in cleared : c.sig = "go"}}

ExecFields ==
    /\ op = "none"
    /\ loc = 0
    /\ desc = "none"
    /\ caller = "none"
    /\ att = 0
    /\ curLoc = 0
    /\ fAtt = 0
    /\ fRetries = 0
    /\ findRet = "none"
    /\ qn = 0
    /\ qStart = 0
    /\ elements = <<>>
    /\ found = <<>>
    /\ element = None
    /\ actedLog = {}
    /\ typeTrace = TraceNone
    /\ sIdx = 0
    /\ tapResults = <<>>
    /\ yielded = {}
    /\ keys = <<>>
    /\ eresult = "none"
    /\ excKind = "none"

ExecIdle == ExecFields /\ epc = "idle"

\* ---------------------------------------------------------------- text entry: data
\* outlook_automation.py type_text_robust, ultimate_outlook_automation.py
\* focus_clear_and_type, main.py input_text_safely.
\* The device: element.clear() empties the field, KEYCODE_DEL removes the last
\* character of the focused field, send_keys / adb input text / a digit key
\* append to it; a backend call that raises leaves the field as it was.

TextVariants == {"outlook", "ultimate", "main"}

\* Calls made in a row on the same field with the same text.
MaxCalls == 2

\* The characters a field or a text is made of.
Alphabet == {"1", "a"}

\* The text arguments tried; str(text) of the year for a "Year" field.
Texts == {<<"1", "9">>, <<"a", "1">>, <<"0">>}

RECURSIVE SeqsUpTo(_, _)
\* All sequences over S of length at most n.
SeqsUpTo(S, n) ==
    IF n = 0 THEN {<<>>}
    ELSE LET shorter == SeqsUpTo(S, n - 1)
         IN shorter \cup {Append(q, c) : q \in {x \in shorter : Len(x) = n - 1}, c \in S}

DigitChars == <<"0", "1", "2", "3", "4", "5", "6", "7", "8", "9">>

\* str(text).isdigit()
IsDigitText(t) ==
    /\ t # <<>>
    /\ \A i \in DOMAIN t : \E d \in DOMAIN DigitChars : DigitChars[d] = t[i]

\* int(digit)
DigitVal(c) == (CHOOSE d \in DOMAIN DigitChars : DigitChars[d] = c) - 1

\* KEYCODE_0
KeyCode0 == 7

KeyCodeOfAscii(c) == 48 + DigitVal(c)

\* keycode = 7 + int(digit)
KeyCodeOf(c) == KeyCode0 + DigitVal(c)

\* input_text_safely of main.py clears without clicking the element first.
FocusFirst(v) == v # "main"

\* None of the three functions looks at the description before element.clear().
NativeClearUsed(v, d) == TRUE

\* element.clear() raised: main.py returns False from its except clause, the
\* other two fall back to backspaces.
ClearFailure(v) == IF v = "main" THEN "fail" ELSE "fallback"

\* The backspace fallback raised: outlook_automation.py runs it inside the bare
\* except of the clear (it reaches the outer handler: return False),
\* ultimate_outlook_automation.py wraps it in try / except: pass.
FallbackFailure(v) == IF v = "ultimate" THEN "pass" ELSE "fail"

DelCountShort(len) == IF len > 0 THEN len - 1 ELSE 0

\* range(len(current_text) + 5)
DelCount(len) == len + ClearMargin

\* send_keys raised: main.py returns False, the other two go on to adb.
SendFailure(v) == IF v = "main" THEN "fail" ELSE "adb"

\* What subprocess.run(..., check=True) can do.
AdbOutcomes == {"ok", "CalledProcessError", "FileNotFoundError", "OtherError"}

\* Whether the handler around the adb call catches exception x.
AdbCaught(v, x) ==
    IF v = "outlook" THEN TRUE
    ELSE x \in {"CalledProcessError", "FileNotFoundError"}

\* The field after k presses of KEYCODE_DEL.
AfterDels(f, k) == SubSeq(f, 1, IF k >= Len(f) THEN 0 ELSE Len(f) - k)

TextFields ==
    /\ tv = "none"
    /\ tEl = "none"
    /\ tText = <<>>
    /\ tDesc = "none"
    /\ field = <<>>
    /\ tLenRead = -1
    /\ tTrace = <<>>
    /\ tKeys = <<>>
    /\ tResults = <<>>

TextIdle == TextFields /\ tpc = "idle"

\* ---------------------------------------------------------------- press and hold: data
\* new.py step6_captcha / long_press_15s_strong, comp.py step6_captcha,
\* main.py step5_captcha_challenge / long_press_captcha.

HoldVariants == {"new", "comp", "main"}

\* The hold the CAPTCHA step asks for: 15 s in new.py and comp.py,
\* long_press_captcha(captcha_element, 3500, ...) in main.py.
HoldRequest(v) == IF v = "main" THEN 3500 ELSE 15000

\* for _ in range(15): create_pause(1)
HoldTicks == 15

\* for i in range(15): two pointer moves
DragSteps == 15

\* create_pointer_move(duration=500, ...)
DragMoveMs == 500

\* captcha_selectors of main.py
HoldSelectors == 3

\* The exceptions a backend call or the adb process can raise.
HoldRaises == {"stale", "error"}

PauseMsRaw(num, den) == num \div den

\* PointerInput.create_pause(num / den): the pause in seconds becomes an action
\* of int(seconds * 1000) milliseconds.
PauseMsOf(num, den) == (num * 1000) \div den

PointerMove(ms) == [type |-> "pointerMove", duration |-> ms]

PointerDown == [type |-> "pointerDown", duration |-> 0]

PointerUp == [type |-> "pointerUp", duration |-> 0]

PointerPause(ms) == [type |-> "pause", duration |-> ms]

\* Tier 2 of new.py: move, down, 15 one-second pauses, up.
TickActions ==
    <<PointerMove(0), PointerDown>>
    \o [i \in 1..HoldTicks |-> PointerPause(PauseMsOf(1, 1))]
    \o <<PointerUp>>

\* Tier 4 of new.py: move, down, 15 times (2 px right, back), up.
DragActions ==
    <<PointerMove(0), PointerDown>>
    \o [i \in 1..(2 * DragSteps) |-> PointerMove(DragMoveMs)]
    \o <<PointerUp>>

\* main.py: move, down, one pause of num / den seconds, up.
PauseActions(num, den) ==
    <<PointerMove(0), PointerDown, PointerPause(PauseMsOf(num, den)), PointerUp>>

RECURSIVE ContactFrom(_, _, _)
\* Time the pointer stays down in the action list acts: the durations of the
\* actions between pointerDown and pointerUp, summed from index i on.
ContactFrom(acts, i, down) ==
    IF i > Len(acts) THEN 0
    ELSE IF acts[i].type = "pointerDown" THEN ContactFrom(acts, i + 1, TRUE)
    ELSE IF acts[i].type = "pointerUp" THEN ContactFrom(acts, i + 1, FALSE)
    ELSE (IF down THEN acts[i].duration ELSE 0) + ContactFrom(acts, i + 1, down)

ContactMs(acts) == ContactFrom(acts, 1, FALSE)

NewTiersSwapped == <<"native", "swipe", "ticks", "drag">>

\* The tiers of long_press_15s_strong, in the order of its try blocks.
NewTiers == <<"native", "ticks", "swipe", "drag">>

\* The contact time each gesture asks the backend for, in ms.
TierMs(v, tier) ==
    CASE tier = "native" -> 15000
      [] tier = "ticks" -> ContactMs(TickActions)
      [] tier = "swipe" -> 15000
      [] tier = "drag" -> ContactMs(DragActions)
      [] tier = "pointswipe" -> 15000
      [] tier = "pause" -> ContactMs(PauseActions(HoldRequest(v), 1000))
      [] tier = "pointpause" -> ContactMs(PauseActions(35, 10))

\* The gestures tried on a resolved element, in order.
ElementTiers(v) ==
    CASE v = "new" -> NewTiers
      [] v = "comp" -> <<"native", "swipe">>
      [] v = "main" -> <<"pause">>

\* Reading the element's location and size raised: new.py does it outside
\* every try block, comp.py inside the try with "except Exception",
\* long_press_captcha of main.py inside its try (return False).
CenterFailure(v) ==
    CASE v = "new" -> "propagate"
      [] v = "comp" -> "point"
      [] v = "main" -> "false"

\* The last gesture on the element raised as well.
TiersExhausted(v) ==
    CASE v = "new" -> "Failure"
      [] v = "comp" -> "point"
      [] v = "main" -> "false"

\* What a gesture can do: the adb swipes are external processes run with
\* check=False, which return with exit status 0 ("ok") or another one
\* ("nonzero") unless launching them raises; the others return or raise.
TierOutcomes(tier) ==
    IF tier \in {"swipe", "pointswipe"}
    THEN {"ok", "nonzero"} \cup HoldRaises
    ELSE {"ok"} \cup HoldRaises

\* Mutant: the process is run with check=True, a nonzero exit status raises.
TierCompletesZeroOnly(o) == o = "ok"

\* The statement after the gesture (sleep, return True) is reached.
TierCompletes(o) == o \in {"ok", "nonzero"}

HoldFields ==
    /\ hv = "none"
    /\ hReq = 0
    /\ hTarget = "none"
    /\ hSel = 0
    /\ hK = 0
    /\ hPrelude = <<>>
    /\ hTiers = <<>>
    /\ hResult = "none"
    /\ hExc = "none"

HoldIdle == HoldFields /\ hpc = "idle"

\* ---------------------------------------------------------------- dropdown selection: data
\* select_dropdown_option of main.py, outlook_automation.py and
\* ultimate_outlook_automation.py (the last is the same code as main.py).

SelVariants == {"main", "outlook", "ultimate"}

\* exact text, substring text, substring content-desc
SelStrategies == <<"exact", "contains", "label">>

\* What one strategy of a pass can end in: the option was tapped, nothing
\* matched within the wait, the query raised something else, the tap raised.
TryOutcomes == {"selected", "nomatch", "query_raise", "tap_raise"}

\* Nothing matched: find_element_safely returns None and the loop goes on
\* (main.py); the wait raises TimeoutException into "except Exception:
\* continue" (outlook_automation.py).
NoMatchReaction(v, pass) == "continue"

\* The query or the tap raised: every script continues in the first pass;
\* in the second pass outlook_automation.py has a try per strategy, main.py
\* and ultimate_outlook_automation.py have one try around the scroll and the
\* whole loop ("except: pass", then return False).
RaiseReaction(v, pass) ==
    IF v = "outlook" \/ pass = 1 THEN "continue" ELSE "abort"

OuterHandlerNone(v) == "propagate"

\* The try around the whole function: except Exception: return False.
OuterHandler(v) == "false"

\* driver.swipe raised: inside "try ... except: pass" in main.py, under the
\* outer handler only in outlook_automation.py.
ScrollFailure(v) == IF v = "outlook" THEN OuterHandler(v) ELSE "false"

SelFields ==
    /\ sv = "none"
    /\ sPass = 0
    /\ sStrat = 0
    /\ sTrace = <<>>
    /\ sResult = "none"

SelIdle == SelFields /\ spc = "idle"

\* ---------------------------------------------------------------- waits: data
\* comp.py step7_post_captcha with wait_authentication, imss.py
\* wait_for_app_load.  Two runs of the same code are fed the same backend
\* responses; only the time each backend call takes is chosen per run.

WaitVariants == {"post", "load"}

Runs == {1, 2}

\* for _ in range(45) in wait_authentication
AuthPolls == 45

\* for _ in range(5) in wait_for_app_load
LoadPolls == 5

\* budget_sec = 7.0, in units of 100 ms
BudgetUnits == 70

\* time.sleep(0.4) at the end of a pass, in units of 100 ms
PassSleepUnits == 4

\* Longest time the backend calls of one pass take together, in units of 100 ms.
MaxCallDur == 30

PollLimit(v) == IF v = "post" THEN AuthPolls ELSE LoadPolls

\* What one poll can see: the indicator is gone, still there, or a call raised.
PollResponses == {"gone", "visible", "raise"}

\* A raising poll: wait_authentication swallows it (bare except: pass) and
\* polls again; find_element_safely of imss.py catches TimeoutException only,
\* so anything else leaves wait_for_app_load.
PollRaise(v) == IF v = "post" THEN "poll_again" ELSE "propagate"

NextPollWrap(n) == (n + 1) % 2

\* The for loop moves to its next iteration.
NextPoll(n) == n + 1

\* while time.time() - start < budget_sec
InBudget(now, start) == now - start < BudgetUnits

\* What the backend shows during one pass of the burst loop: the inbox at the
\* first probe, a button that leads to the inbox, a button that does not,
\* nothing at all.
PassResponses == {"inbox", "clicked_inbox", "clicked", "nothing"}

WaitFields ==
    /\ wv = "none"
    /\ wPoll = [r \in Runs |-> 0]
    /\ wGaveUp = [r \in Runs |-> FALSE]
    /\ wNow = [r \in Runs |-> 0]
    /\ wStart = [r \in Runs |-> 0]
    /\ wPasses = [r \in Runs |-> 0]
    /\ wRet = [r \in Runs |-> "none"]

WaitIdle == WaitFields /\ wpc = [r \in Runs |-> "idle"]

\* ---------------------------------------------------------------- name step: data
\* comp.py step5_name, with the sleeps it makes between its backend calls.

\* for _ in range(10) of the backspace loops
NameDels == 10

\* A backend call with its outcome, or a time.sleep.
Event(kind, ok) == [kind |-> kind, ok |-> ok]

Sleep == Event("sleep", TRUE)

NoEvent == Event("none", TRUE)

\* A tap or a text entry that succeeded.
IsEntry(ev) == ev.kind \in {"click", "send"} /\ ev.ok

\* A query or an interaction sent to the backend.
IsCall(ev) == ev.kind \notin {"sleep", "none"}

\* What the call of a backend method can do inside the outer try of
\* step5_name: return, raise StaleElementReferenceException, raise another
\* exception.
NameOutcomes == {"ok", "stale", "raise"}

\* Where the outer try of step5_name sends an exception: the handler names
\* StaleElementReferenceException only, everything else leaves the step.
NameHandler(o) == IF o = "stale" THEN "fallback" ELSE "raised"

\* Content lengths the fields are tried with.
NameLens == {0, 4, 12}

NameFields ==
    /\ nField = 1
    /\ nDel = 0
    /\ nLen = 0
    /\ nPrev = NoEvent
    /\ nLast = NoEvent
    /\ nResult = "none"

NameIdle == NameFields /\ npc = "idle"

\* ---------------------------------------------------------------- press coordinates: data
\* new.py _center_of, _scroll_into_view, long_press_15s_strong, step6_captcha;
\* comp.py step6_captcha; outlook_automation.py captcha_long_press.

GeomVariants == {"new", "comp", "outlook"}

\* Window sizes and target rectangles the runs are tried on.
ScreenSizes == {[width |-> 1080, height |-> 2000], [width |-> 720, height |-> 1000]}

RectXs == {0, 300}

RectYs == {100, 850, 1400}

RectExtents == {<<200, 100>>, <<301, 101>>}

\* if abs(delta) > 80
NudgeBand == 80

\* min(max(..., 200), height - 200)
NudgeEdge == 200

\* the swipe of captcha_long_press: "540", "1376"
FixedX == 540

FixedY == 1376

Abs(n) == IF n >= 0 THEN n ELSE -n

Min(a, b) == IF a <= b THEN a ELSE b

Max(a, b) == IF a >= b THEN a ELSE b

\* int(n * 0.6): the product is truncated toward zero.
SixTenths(n) == IF n >= 0 THEN (n * 6) \div 10 ELSE -(((-n) * 6) \div 10)

\* loc['x'] + sz['width']//2, loc['y'] + sz['height']//2
CenterOf(r) == <<r.x + r.w \div 2, r.y + r.h \div 2>>

\* self.size['width']//2, int(self.size['height']*0.6)
ScreenPoint(sz) == <<sz.width \div 2, SixTenths(sz.height)>>

\* The point pressed when nothing on the element worked or nothing was found:
\* captcha_long_press has it written out.
FallbackPoint(v, sz) == IF v = "outlook" THEN <<FixedX, FixedY>> ELSE ScreenPoint(sz)

MidY(sz) == sz.height \div 2

\* delta = cy - mid_y
NudgeDelta(r, sz) == CenterOf(r)[2] - MidY(sz)

\* start_y = min(max(mid_y + int(delta*0.6), 200), height - 200)
NudgeStartY(r, sz) ==
    Min(Max(MidY(sz) + SixTenths(NudgeDelta(r, sz)), NudgeEdge), sz.height - NudgeEdge)

\* The swipe drags the content from start_y to end_y = mid_y: the target moves
\* by the length of the drag.
AfterSwipe(r, sz) == [r EXCEPT !.y = r.y + (MidY(sz) - NudgeStartY(r, sz))]

\* The gestures on a resolved element, in order, and whether each is sent
\* with coordinates (the native long click names the element instead).
GeomTiers(v) ==
    CASE v = "new" -> <<"native", "ticks", "swipe", "drag">>
      [] v = "comp" -> <<"native", "swipe">>
      [] v = "outlook" -> <<"pause">>

UsesCoordinates(tier) == tier # "native"

\* Reading location / size raised: outside every try in new.py, inside the
\* try of comp.py and captcha_long_press, which go on to the fallback point.
GeomCenterFailure(v) == IF v = "new" THEN "propagate" ELSE "point"

\* Every gesture on the element raised.
GeomExhausted(v) == IF v = "new" THEN "False" ELSE "point"

\* Only long_press_15s_strong of new.py calls _scroll_into_view.
Nudged(v) == v = "new"

GeomFields ==
    /\ gv = "none"
    /\ gSize = [width |-> 0, height |-> 0]
    /\ gRect = [x |-> 0, y |-> 0, w |-> 0, h |-> 0]
    /\ gFound = FALSE
    /\ gNudge = "none"
    /\ gCenter = <<>>
    /\ gK = 0
    /\ gUsed = <<>>
    /\ gResult = "none"

GeomIdle == GeomFields /\ gpc = "idle"

\* ---------------------------------------------------------------- details step: data
\* outlook_automation.py step4_add_details, ultimate_outlook_automation.py
\* step4_add_details.

DetailVariants == {"outlook", "ultimate"}

\* day_selectors / month_selectors
DetailSelectors == 3

\* find_element_safe / find_element_safely: the element, None after a
\* TimeoutException, or any other exception of the wait, which it lets out.
LookupOutcomes == {"found", "timeout", "raise"}

\* Where an exception inside the step goes: outlook_automation.py has the body
\* in try / except Exception: return False, ultimate_outlook_automation.py has
\* no try and the exception leaves the step.
DetailRaise(v) == IF v = "outlook" THEN "False" ELSE "raised"

\* Mutant: the year is entered only when both selections succeeded.
AfterSelectionsStrict(day, month) == IF day /\ month THEN "year" ELSE "returnFalse"

\* "if not day_success: warning, continuing": the flags are only logged.
AfterSelections(day, month) == "year"

\* What the year entry can come to: outlook_automation.py find_year_field
\* returned None ("notfound") or type_text_robust returned False ("typefail"),
\* ultimate_outlook_automation.py enter_year_robust returned False ("typefail").
YearOutcomes(v) ==
    IF v = "outlook" THEN {"notfound", "typefail", "ok"} ELSE {"typefail", "ok"}

DetailFields ==
    /\ dv = "none"
    /\ dPhase = "day"
    /\ dSel = 1
    /\ dDay = FALSE
    /\ dMonth = FALSE
    /\ dExc = "none"
    /\ dYear = "none"
    /\ dNext = "none"
    /\ dResult = "none"

DetailIdle == DetailFields /\ dpc = "idle"

\* ---------------------------------------------------------------- IMSS workflow: data
\* imss.py IMSSDigitalAutomationProduction.

\* The steps of run_automation, in its order.
ImssSteps == <<"setup", "navigate", "fill", "submit", "dialog", "status">>

\* The steps taken by what they return or raise.
OuterSteps == {"setup", "navigate", "fill", "submit"}

StepIndex(s) == CHOOSE i \in 1..Len(ImssSteps) : ImssSteps[i] = s

\* dialog_selectors, accept_selectors, success_indicators
DialogSelectors == 3
AcceptSelectors == 4
StatusIndicators == 5

\* find_element_safely: the element, None after a TimeoutException, or any
\* other exception of the wait, which it lets out.
ImssLookups == {"found", "timeout", "raise"}

\* tap_element_safely: True, or False after any exception of the click.
TapOutcomes == {"True", "False"}

\* setup_driver catches WebDriverException (False); the other steps return or
\* raise.
ImssStepOutcomes == {"True", "False", "raised"}

\* Mutant: no dialog is a failure.
WithoutDialogFails == "False"

\* handle_dialog, "if not dialog_found: ... return True".
WithoutDialog == "True"

\* Mutant: no indicator is a failure.
WithoutIndicatorFails == "False"

\* check_final_status, the return after the indicator loop.
WithoutIndicator == "True"

\* handle_dialog, the return after the accept loop.
WithoutAccept == "False"

ImssFields ==
    /\ iSel = 1
    /\ iRet = [s \in {ImssSteps[i] : i \in 1..Len(ImssSteps)} |-> "none"]
    /\ iDialog = FALSE
    /\ iTapped = FALSE
    /\ iIndicator = FALSE
    /\ iExc = FALSE
    /\ iDriver = FALSE
    /\ iDebug = FALSE
    /\ iShots = <<>>
    /\ iQuit = "none"
    /\ iResult = "none"

ImssIdle == ImssFields /\ ipc = "idle"

\* ---------------------------------------------------------------- run

RunFields ==
    /\ driver = "none"
    /\ opened = 0
    /\ quitCalls = 0
    /\ idx = 1
    /\ started = <<>>
    /\ log = <<>>
    /\ pending = "none"
    /\ result = "none"
    /\ escaped = "none"
    /\ phase = "Pending"

Init ==
    /\ script \in Scripts
    /\ pc = "start"
    /\ RunFields
    /\ ExecIdle
    /\ TextIdle
    /\ HoldIdle
    /\ SelIdle
    /\ WaitIdle
    /\ NameIdle
    /\ GeomIdle
    /\ DetailIdle
    /\ ImssIdle

\* Setup failed with exception class c (or "none": setup returned normally).
\* Decides where run goes next.
AfterSetup(c) ==
    IF c = "none"
    THEN /\ pc' = "loop"
         /\ phase' = "Running"
         /\ UNCHANGED <<pending, result, escaped>>
    ELSE /\ phase' = "SetupFailed"
         /\ IF SetupCatches(script, c)
            THEN \* setup returned False: "if not setup(): return False"
                 IF SetupInsideTry(script)
                 THEN /\ pc' = "finally"
                      /\ pending' = "false"
                      /\ UNCHANGED <<result, escaped>>
                 ELSE /\ pc' = "done"
                      /\ result' = "false"
                      /\ UNCHANGED <<pending, escaped>>
            ELSE \* the exception leaves the setup function
                 IF SetupInsideTry(script)
                 THEN /\ pc' = "finally"       \* run's except Exception: return False
                      /\ pending' = "false"
                      /\ UNCHANGED <<result, escaped>>
                 ELSE /\ pc' = "done"
                      /\ result' = "exception"
                      /\ escaped' = "setup"
                      /\ UNCHANGED pending

\* webdriver.Remote(...): creates the session or raises.
SetupConnect ==
    /\ pc = "start"
    /\ \E c \in ExcClasses \cup {"none"} :
          IF c = "none"
          THEN /\ driver' = "open"
               /\ opened' = opened + 1
               /\ IF SetupConfigures(script)
                  THEN /\ pc' = "configure"
                       /\ UNCHANGED <<pending, result, escaped, phase>>
                  ELSE AfterSetup("none")
          ELSE /\ UNCHANGED <<driver, opened>>
               /\ AfterSetup(c)
    /\ UNCHANGED <<script, quitCalls, idx, started, log>>
    /\ UNCHANGED nonRunVars

\* update_settings / get_window_size on the fresh session.
SetupConfigure ==
    /\ pc = "configure"
    /\ \E c \in ExcClasses \cup {"none"} : AfterSetup(c)
    /\ UNCHANGED <<script, driver, opened, quitCalls, idx, started, log>>
    /\ UNCHANGED nonRunVars

\* The loop calls the next step function.
StepStart ==
    /\ pc = "loop"
    /\ idx <= NSteps(script)
    /\ pc' = "step"
    /\ started' = Append(started, Steps(script)[idx])
    /\ UNCHANGED <<script, driver, opened, quitCalls, idx, log, pending, result,
                   escaped, phase>>
    /\ UNCHANGED nonRunVars

\* The step function returns or raises; the runner applies its policy.
StepReturn ==
    /\ pc = "step"
    /\ \E o \in StepOutcomes(script, Steps(script)[idx]) :
          LET name == Steps(script)[idx]
              react == CASE o = "ok" -> "continue"
                         [] o = "fail" -> IF StepFalseAborts(script, name)
                                          THEN "returnFalse" ELSE "continue"
                         [] o = "raise" -> StepRaiseReaction(script, name)
          IN /\ log' = Append(log, [step |-> name, outcome |-> o])
             /\ CASE react = "continue" ->
                       /\ idx' = NextIdx(idx, o)
                       /\ pc' = "loop"
                       /\ UNCHANGED <<pending, phase>>
                  [] react = "returnFalse" ->
                       /\ pc' = "finally"
                       /\ pending' = "false"
                       /\ phase' = "Aborted"
                       /\ UNCHANGED idx
                  [] react = "propagate" ->
                       /\ pc' = "finally"
                       /\ pending' = "raise"
                       /\ phase' = "Aborted"
                       /\ UNCHANGED idx
    /\ UNCHANGED <<script, driver, opened, quitCalls, started, result, escaped>>
    /\ UNCHANGED nonRunVars

\* The loop ran out of steps: "return True".
LoopEnd ==
    /\ pc = "loop"
    /\ idx > NSteps(script)
    /\ pc' = "finally"
    /\ pending' = "true"
    /\ phase' = "Completed"
    /\ UNCHANGED <<script, driver, opened, quitCalls, idx, started, log, result, escaped>>
    /\ UNCHANGED nonRunVars

\* The finally block: quit the driver, then hand the pending value to the caller.
Teardown ==
    /\ pc = "finally"
    /\ pc' = "done"
    /\ IF QuitTestsDriver(script) /\ driver = "none"
       THEN \* "if self.driver:" is false, nothing is called
            /\ UNCHANGED <<driver, quitCalls>>
            /\ result' = pending
            /\ UNCHANGED escaped
       ELSE \E q \in {"ok", "raise"} :
            /\ driver' = "closed"
            /\ quitCalls' = quitCalls + 1
            /\ IF q = "raise" /\ ~QuitGuarded(script)
               THEN /\ result' = "exception"
                    /\ escaped' = "quit"
               ELSE /\ result' = IF pending = "raise" THEN "exception" ELSE pending
                    /\ escaped' = IF pending = "raise" THEN "step" ELSE escaped
    /\ UNCHANGED <<script, opened, idx, started, log, pending, phase>>
    /\ UNCHANGED nonRunVars

Next ==
    \/ SetupConnect
    \/ SetupConfigure
    \/ StepStart
    \/ StepReturn
    \/ LoopEnd
    \/ Teardown

Spec == Init /\ [][Next]_vars

\* ---------------------------------------------------------------- properties of the runners

\* Step i of the run failed: it returned False or raised.
Failed(i) == log[i].outcome # "ok"

\* C1: whenever a run has opened a backend session, that session is closed
\* exactly once before run returns, on every path (completed, aborted, a step
\* raised, setup failed after the connection was created); never twice, never
\* left open.
C1_SessionClosedExactlyOnce ==
    /\ quitCalls <= 1
    /\ pc = "done" => quitCalls = opened

\* C2: a failed critical step aborts the run, no later step is executed and
\* run does not report success (comp.py returns False); a failed optional step
\* is recorded and the next step in the list is executed.
C2_CriticalityPolicy ==
    \A i \in 1..Len(log) :
        Failed(i) =>
            IF Critical(script, log[i].step)
            THEN /\ Len(log) = i
                 /\ Len(started) = i
                 /\ phase = "Aborted"
                 /\ pc \in {"finally", "done"}
                 /\ result # "true"
                 /\ (pc = "done" /\ script = "comp") => result = "false"
            ELSE /\ (Len(log) = i /\ i < NSteps(script)) =>
                        /\ pc \in {"loop", "step"}
                        /\ idx = i + 1
                 /\ (pc = "done" /\ i < NSteps(script)) =>
                        /\ Len(log) > i
                        /\ log[i + 1].step = Steps(script)[i + 1]

\* The example of the claim: [A(critical, fails), B(...)] in comp.py, where
\* Email is critical and returned False: Password was never called.
C2_Witness ==
    /\ script = "comp"
    /\ pc = "done"
    /\ Len(log) = 2
    /\ log[2] = [step |-> "Email", outcome |-> "fail"]
    /\ started = <<"Welcome", "Email">>
    /\ result = "false"

\* C3: a step that raises has the same effect on the run as one that returns
\* False: the run stops or goes on exactly as for a returned False, the caller
\* gets the same result, and the step's exception does not leave run.
C3_RaiseSameAsFalse ==
    \A i \in 1..Len(log) :
        log[i].outcome = "raise" =>
            /\ escaped # "step"
            /\ IF StepFalseAborts(script, log[i].step)
               THEN /\ Len(log) = i
                    /\ phase = "Aborted"
                    /\ pc = "done" => result = (IF escaped = "quit" THEN "exception" ELSE "false")
               ELSE (Len(log) = i) => phase # "Aborted"

C5_StrictOrder ==
    /\ Len(started) <= NSteps(script)
    /\ \A i \in 1..Len(started) : started[i] = Steps(script)[i]
    /\ \A i \in 1..Len(log) : log[i].step = started[i]
    /\ Len(log) <= Len(started)
    /\ Len(started) <= Len(log) + 1
    /\ (pc = "step") <=> (Len(started) = Len(log) + 1)
    /\ phase = "Completed" => Len(log) = NSteps(script)

\* A run in which a step failed and the following steps were each called once.
C5_Witness ==
    /\ pc = "done"
    /\ script \in {"comp", "outlook"}
    /\ Len(log) = NSteps(script)
    /\ Failed(4)
    /\ started = Steps(script)

\* Every call the runner makes returns: the runner keeps going until it is done.
LiveSpec == Spec /\ WF_vars(Next)

\* The backend refused something: setup failed, a step returned False or
\* raised, or driver.quit() let an exception out.
Uncooperative ==
    \/ phase = "SetupFailed"
    \/ \E i \in DOMAIN log : log[i].outcome # "ok"
    \/ escaped # "none"

\* The run is over, it returned True, and every step of the declared list
\* was called and logged as successful, in the declared order.
CompletedAll ==
    /\ pc = "done"
    /\ phase = "Completed"
    /\ result = "true"
    /\ started = Steps(script)
    /\ log = [i \in 1..Len(Steps(script)) |-> [step |-> Steps(script)[i], outcome |-> "ok"]]

\* C29: unless the backend refuses something, the run eventually reaches
\* Completed with result true and one successful outcome per declared step,
\* in the declared order.
C29_CooperativeCompletes == <>(Uncooperative \/ CompletedAll)

C29_Witness == CompletedAll /\ ~Uncooperative /\ quitCalls = 1

\* C30: a step runs only on an open session; when setup failed no step was
\* called and the run returns False; once the session is closed the run is
\* over.
C30_StepsInsideSession ==
    /\ pc = "step" => driver = "open"
    /\ started # <<>> => opened = 1
    /\ driver = "closed" => pc = "done"
    /\ phase = "SetupFailed" => started = <<>>
    /\ (phase = "SetupFailed" /\ pc = "done") => result = "false"

\* ---------------------------------------------------------------- primitives: actions

InitExec ==
    /\ script = "comp"
    /\ pc = "idle"
    /\ RunFields
    /\ ExecFields
    /\ epc = "call"
    /\ TextIdle
    /\ HoldIdle
    /\ SelIdle
    /\ WaitIdle
    /\ NameIdle
    /\ GeomIdle
    /\ DetailIdle
    /\ ImssIdle

\* Entry of click_element_bulletproof(by, value) with locator l, called by who.
ClickEnter(l, who) ==
    /\ loc' = l
    /\ caller' = who
    /\ att' = 0
    /\ qn' = 0
    /\ qStart' = 0
    /\ element' = None
    /\ actedLog' = {}
    /\ elements' = <<>>
    /\ found' = <<>>
    /\ epc' = "click_loop"

\* click_element_bulletproof returns val to its caller; click_next_production
\* then returns True or moves to its next strategy.
ClickReturn(val) ==
    IF caller = "top"
    THEN /\ epc' = "done"
         /\ eresult' = IF val THEN "Success" ELSE "Failure"
         /\ UNCHANGED <<tapResults, sIdx>>
    ELSE /\ tapResults' = Append(tapResults, val)
         /\ IF NextAfterClick(val) = "return"
            THEN /\ epc' = "done"
                 /\ eresult' = "Success"
                 /\ UNCHANGED sIdx
            ELSE /\ epc' = "next_loop"
                 /\ sIdx' = sIdx + 1
                 /\ UNCHANGED eresult

\* A test harness calls click_element_bulletproof with some locator.
CallClick ==
    /\ epc = "call"
    /\ op' = "click"
    /\ \E l \in 1..NStrategies : ClickEnter(l, "top")
    /\ UNCHANGED <<desc, curLoc, fAtt, fRetries, findRet, typeTrace, sIdx, tapResults,
                   yielded, keys, eresult, excKind>>
    /\ UNCHANGED nonExecVars

\* One iteration of the click loop begins: find_element_bulletproof(by, value).
ClickAttemptStart ==
    /\ epc = "click_loop"
    /\ att < ClickAttempts
    /\ curLoc' = loc
    /\ fAtt' = 0
    /\ fRetries' = DefaultRetries
    /\ findRet' = "click_got"
    /\ qStart' = qn
    /\ qn' = qn + 1
    /\ epc' = "find"
    /\ UNCHANGED <<op, loc, desc, caller, att, elements, found, element, actedLog,
                   typeTrace, sIdx, tapResults, yielded, keys, eresult, excKind>>
    /\ UNCHANGED nonExecVars

\* One pass of the retry loop of find_elements_bulletproof: query, filter,
\* return the visible elements, or go on / give up with [].
FindPass ==
    /\ epc = "find"
    /\ fAtt < fRetries
    /\ \E r \in QueryOutcomes :
          LET els == IF IsList(r)
                     THEN [i \in DOMAIN r |-> Handle(qn, curLoc, i, r[i])]
                     ELSE <<>>
              vis == VisibleElements(els)
          IN /\ elements' = els
             /\ IF ~IsList(r) /\ FindHandler(r[1]) = "propagate"
                THEN /\ found' = <<>>
                     /\ epc' = "find_raised"
                     /\ eresult' = "raised"
                     /\ excKind' = "error"
                     /\ UNCHANGED <<fAtt, yielded>>
                ELSE IF vis # <<>>
                THEN /\ found' = vis
                     /\ yielded' = yielded \cup {curLoc}
                     /\ epc' = findRet
                     /\ UNCHANGED <<fAtt, eresult, excKind>>
                ELSE /\ found' = <<>>
                     /\ fAtt' = fAtt + 1
                     /\ epc' = IF fAtt + 1 < fRetries THEN "find" ELSE findRet
                     /\ UNCHANGED <<yielded, eresult, excKind>>
    /\ UNCHANGED <<op, loc, desc, caller, att, curLoc, fRetries, findRet, qn, qStart,
                   element, actedLog, typeTrace, sIdx, tapResults, keys>>
    /\ UNCHANGED nonExecVars

\* The rest of one click attempt: "if not element: return False", element.click(),
\* and the except clauses.
ClickInteract ==
    /\ epc = "click_got"
    /\ LET el == ElementForAttempt(element, found)
       IN /\ element' = el
          /\ elements' = <<>>
          /\ found' = <<>>
          /\ IF el = None
             THEN /\ ClickReturn(FALSE)
                  /\ UNCHANGED <<actedLog, att, excKind>>
             ELSE \E o \in {"ok", "stale", "error"} :
                  /\ actedLog' = actedLog \cup {[h |-> Ident(el), att |-> att, qStart |-> qStart]}
                  /\ IF o = "ok"
                     THEN /\ ClickReturn(TRUE)
                          /\ UNCHANGED <<att, excKind>>
                     ELSE IF ClickHandler(o) = "retry"
                     THEN /\ att' = att + 1
                          /\ UNCHANGED excKind
                          /\ IF att + 1 < ClickAttempts
                             THEN /\ epc' = "click_loop"
                                  /\ UNCHANGED <<eresult, tapResults, sIdx>>
                             ELSE ClickReturn(FALSE)
                     ELSE /\ epc' = "done"
                          /\ eresult' = "raised"
                          /\ excKind' = o
                          /\ UNCHANGED <<att, tapResults, sIdx>>
    /\ UNCHANGED <<op, loc, desc, caller, curLoc, fAtt, fRetries, findRet, qn, qStart,
                   typeTrace, yielded, keys>>
    /\ UNCHANGED nonExecVars

\* A test harness calls click_next_production.
CallNext ==
    /\ epc = "call"
    /\ op' = "next"
    /\ sIdx' = 1
    /\ epc' = "next_loop"
    /\ UNCHANGED <<loc, desc, caller, att, curLoc, fAtt, fRetries, findRet, qn, qStart,
                   elements, found, element, actedLog, typeTrace, tapResults, yielded,
                   keys, eresult, excKind>>
    /\ UNCHANGED nonExecVars

\* click_next_production hands its next strategy to click_element_bulletproof.
NextStrategy ==
    /\ epc = "next_loop"
    /\ sIdx <= NStrategies
    /\ ClickEnter(sIdx, "next")
    /\ UNCHANGED <<op, desc, curLoc, fAtt, fRetries, findRet, typeTrace, sIdx, tapResults,
                   yielded, keys, eresult, excKind>>
    /\ UNCHANGED nonExecVars

\* The ENTER fallback of click_next_production, inside try / bare except.
NextEnter ==
    /\ epc = "next_loop"
    /\ sIdx > NStrategies
    /\ epc' = "done"
    /\ \E k \in {"ok", "raise"} :
          /\ keys' = IF k = "ok" THEN Append(keys, KeyEnter) ELSE keys
          /\ eresult' = AfterEnter(k)
    /\ UNCHANGED <<op, loc, desc, caller, att, curLoc, fAtt, fRetries, findRet, qn, qStart,
                   elements, found, element, actedLog, typeTrace, sIdx, tapResults,
                   yielded, excKind>>
    /\ UNCHANGED nonExecVars

\* A test harness calls type_text_bulletproof with a locator and a description.
CallType ==
    /\ epc = "call"
    /\ op' = "type"
    /\ \E l \in 1..NStrategies : loc' = l
    /\ \E d \in {"year", "other"} : desc' = d
    /\ caller' = "top"
    /\ epc' = "type_loop"
    /\ UNCHANGED <<att, curLoc, fAtt, fRetries, findRet, qn, qStart, elements, found,
                   element, actedLog, typeTrace, sIdx, tapResults, yielded, keys, eresult,
                   excKind>>
    /\ UNCHANGED nonExecVars

\* One iteration of the type loop begins: find_element_bulletproof(by, value).
TypeAttemptStart ==
    /\ epc = "type_loop"
    /\ att < TypeAttempts
    /\ curLoc' = loc
    /\ fAtt' = 0
    /\ fRetries' = DefaultRetries
    /\ findRet' = "type_got"
    /\ qStart' = qn
    /\ qn' = qn + 1
    /\ typeTrace' = TraceNone
    /\ epc' = "find"
    /\ UNCHANGED <<op, loc, desc, caller, att, elements, found, element, actedLog,
                   sIdx, tapResults, yielded, keys, eresult, excKind>>
    /\ UNCHANGED nonExecVars

\* The rest of one type attempt: "if not element: return False", focus, clear,
\* inject, and the outer except clauses.
TypeInteract ==
    /\ epc = "type_got"
    /\ LET el == ElementForAttempt(element, found)
       IN /\ element' = el
          /\ elements' = <<>>
          /\ found' = <<>>
          /\ IF el = None
             THEN /\ epc' = "done"
                  /\ eresult' = "Failure"
                  /\ UNCHANGED <<actedLog, att, excKind, typeTrace>>
             ELSE \E t \in TypeRuns(desc) :
                  /\ typeTrace' = t
                  /\ actedLog' = actedLog \cup {[h |-> Ident(el), att |-> att, qStart |-> qStart]}
                  /\ IF t.sig = "ret_true"
                     THEN /\ epc' = "done"
                          /\ eresult' = "Success"
                          /\ UNCHANGED <<att, excKind>>
                     ELSE IF TypeHandler(t.sig) = "retry"
                     THEN /\ att' = att + 1
                          /\ UNCHANGED excKind
                          /\ IF att + 1 < TypeAttempts
                             THEN /\ epc' = "type_loop"
                                  /\ UNCHANGED eresult
                             ELSE /\ epc' = "done"
                                  /\ eresult' = "Failure"
                     ELSE /\ epc' = "done"
                          /\ eresult' = "raised"
                          /\ excKind' = t.sig
                          /\ UNCHANGED att
    /\ UNCHANGED <<op, loc, desc, caller, curLoc, fAtt, fRetries, findRet, qn, qStart,
                   sIdx, tapResults, yielded, keys>>
    /\ UNCHANGED nonExecVars

\* step4_details_fixed after the dropdown was opened: find the option.
CallOption ==
    /\ epc = "call"
    /\ op' = "option"
    /\ loc' = 1
    /\ curLoc' = 1
    /\ fAtt' = 0
    /\ fRetries' = DefaultRetries
    /\ findRet' = "opt_got1"
    /\ qn' = qn + 1
    /\ epc' = "find"
    /\ UNCHANGED <<desc, caller, att, qStart, elements, found, element, actedLog,
                   typeTrace, sIdx, tapResults, yielded, keys, eresult, excKind>>
    /\ UNCHANGED nonExecVars

\* "if day_option: try: day_option.click() ... except Stale: re-find".
OptionClickFirst ==
    /\ epc = "opt_got1"
    /\ LET el == ElementForAttempt(element, found)
       IN /\ element' = el
          /\ elements' = <<>>
          /\ found' = <<>>
          /\ IF el = None
             THEN /\ epc' = "done"
                  /\ eresult' = "Failure"
                  /\ UNCHANGED <<actedLog, excKind, curLoc, fAtt, fRetries, findRet, qn,
                                 qStart>>
             ELSE \E o \in {"ok", "stale", "error"} :
                  /\ actedLog' = actedLog \cup {[h |-> Ident(el), att |-> 0, qStart |-> qStart]}
                  /\ IF o = "ok"
                     THEN /\ epc' = "done"
                          /\ eresult' = "Success"
                          /\ UNCHANGED <<excKind, curLoc, fAtt, fRetries, findRet, qn, qStart>>
                     ELSE IF OptionHandlerFirst(o) = "refind"
                     THEN /\ curLoc' = loc
                          /\ fAtt' = 0
                          /\ fRetries' = DefaultRetries
                          /\ findRet' = "opt_got2"
                          /\ qStart' = qn
                          /\ qn' = qn + 1
                          /\ epc' = "find"
                          /\ UNCHANGED <<eresult, excKind>>
                     ELSE /\ epc' = "done"
                          /\ eresult' = "raised"
                          /\ excKind' = o
                          /\ UNCHANGED <<curLoc, fAtt, fRetries, findRet, qn, qStart>>
    /\ UNCHANGED <<op, loc, desc, caller, att, typeTrace, sIdx,
                   tapResults, yielded, keys>>
    /\ UNCHANGED nonExecVars

\* The click on the re-found option, inside the except block: nothing guards it.
OptionClickSecond ==
    /\ epc = "opt_got2"
    /\ epc' = "done"
    /\ LET el == ElementForAttempt(element, found)
       IN /\ element' = el
          /\ elements' = <<>>
          /\ found' = <<>>
          /\ IF el = None
             THEN /\ eresult' = "Failure"
                  /\ UNCHANGED <<actedLog, excKind>>
             ELSE \E o \in {"ok", "stale", "error"} :
                  /\ actedLog' = actedLog \cup {[h |-> Ident(el), att |-> 1, qStart |-> qStart]}
                  /\ IF o = "ok"
                     THEN /\ eresult' = "Success"
                          /\ UNCHANGED excKind
                     ELSE IF OptionHandlerSecond(o) = "propagate"
                     THEN /\ eresult' = "raised"
                          /\ excKind' = o
                     ELSE /\ eresult' = "Failure"
                          /\ UNCHANGED excKind
    /\ UNCHANGED <<op, loc, desc, caller, att, curLoc, fAtt, fRetries, findRet, qn, qStart,
                   typeTrace, sIdx, tapResults, yielded, keys>>
    /\ UNCHANGED nonExecVars

\* step7_post_captcha calls quick_click(xpaths).
CallQuick ==
    /\ epc = "call"
    /\ op' = "quick"
    /\ sIdx' = 1
    /\ epc' = "quick_loop"
    /\ UNCHANGED <<loc, desc, caller, att, curLoc, fAtt, fRetries, findRet, qn, qStart,
                   elements, found, element, actedLog, typeTrace, tapResults, yielded,
                   keys, eresult, excKind>>
    /\ UNCHANGED nonExecVars

\* A find call of quick_click on xpath sIdx, returning to ret.
QuickFind(ret) ==
    /\ curLoc' = sIdx
    /\ fAtt' = 0
    /\ fRetries' = 1
    /\ findRet' = ret
    /\ qStart' = qn
    /\ qn' = qn + 1
    /\ epc' = "find"

\* "for xp in xpaths: el = find_element_bulletproof(xp, timeout=1, retry_attempts=1)"
QuickXPath ==
    /\ epc = "quick_loop"
    /\ sIdx <= NQuickXPaths
    /\ loc' = sIdx
    /\ actedLog' = {}
    /\ QuickFind("quick_got")
    /\ UNCHANGED <<op, desc, caller, att, elements, found, element, typeTrace,
                   sIdx, tapResults, yielded, keys, eresult, excKind>>
    /\ UNCHANGED nonExecVars

\* The xpath list is exhausted: "return False".
QuickExhausted ==
    /\ epc = "quick_loop"
    /\ sIdx > NQuickXPaths
    /\ epc' = "done"
    /\ eresult' = "Failure"
    /\ UNCHANGED <<op, loc, desc, caller, att, curLoc, fAtt, fRetries, findRet, qn, qStart,
                   elements, found, element, actedLog, typeTrace, sIdx, tapResults,
                   yielded, keys, excKind>>
    /\ UNCHANGED nonExecVars

\* "if el:" after the first find of an xpath; the inner range(2) loop starts.
QuickGot ==
    /\ epc = "quick_got"
    /\ LET el == ElementForAttempt(element, found)
       IN /\ element' = el
          /\ elements' = <<>>
          /\ found' = <<>>
          /\ att' = 0
          /\ IF el = None
             THEN /\ sIdx' = sIdx + 1
                  /\ epc' = "quick_loop"
             ELSE /\ epc' = "quick_try"
                  /\ UNCHANGED sIdx
    /\ UNCHANGED <<op, loc, desc, caller, curLoc, fAtt, fRetries, findRet, qn, qStart,
                   actedLog, typeTrace, tapResults, yielded, keys,
                   eresult, excKind>>
    /\ UNCHANGED nonExecVars

\* el.click() inside quick_click and its except clauses.
QuickClick ==
    /\ epc = "quick_try"
    /\ \E o \in {"ok", "stale", "error"} :
          /\ actedLog' = actedLog \cup {[h |-> Ident(element), att |-> att, qStart |-> qStart]}
          /\ IF o = "ok"
             THEN /\ epc' = "done"
                  /\ eresult' = "Success"
                  /\ UNCHANGED <<sIdx, curLoc, fAtt, fRetries, findRet, qn, qStart>>
             ELSE IF QuickHandler(o) = "refind"
             THEN /\ QuickFind("quick_regot")
                  /\ UNCHANGED <<sIdx, eresult>>
             ELSE /\ sIdx' = sIdx + 1
                  /\ epc' = "quick_loop"
                  /\ UNCHANGED <<eresult, curLoc, fAtt, fRetries, findRet, qn, qStart>>
    /\ UNCHANGED <<op, loc, desc, caller, att, elements, found, element, typeTrace,
                   tapResults, yielded, keys, excKind>>
    /\ UNCHANGED nonExecVars

\* After the re-find in the Stale handler: "if not el: break", else the inner
\* loop takes its next iteration, if it has one.
QuickRegot ==
    /\ epc = "quick_regot"
    /\ LET el == ElementForAttempt(element, found)
       IN /\ element' = el
          /\ elements' = <<>>
          /\ found' = <<>>
          /\ IF el # None /\ att + 1 < QuickTries
             THEN /\ att' = att + 1
                  /\ epc' = "quick_try"
                  /\ UNCHANGED sIdx
             ELSE /\ sIdx' = sIdx + 1
                  /\ epc' = "quick_loop"
                  /\ UNCHANGED att
    /\ UNCHANGED <<op, loc, desc, caller, curLoc, fAtt, fRetries, findRet, qn, qStart,
                   actedLog, typeTrace, tapResults, yielded, keys,
                   eresult, excKind>>
    /\ UNCHANGED nonExecVars

NextExec ==
    \/ CallClick
    \/ ClickAttemptStart
    \/ FindPass
    \/ ClickInteract
    \/ CallNext
    \/ NextStrategy
    \/ NextEnter
    \/ CallType
    \/ TypeAttemptStart
    \/ TypeInteract
    \/ CallOption
    \/ OptionClickFirst
    \/ OptionClickSecond
    \/ CallQuick
    \/ QuickXPath
    \/ QuickExhausted
    \/ QuickGot
    \/ QuickClick
    \/ QuickRegot

SpecExec == InitExec /\ [][NextExec]_vars

\* ---------------------------------------------------------------- properties of the primitives

\* The handle e is in the sequence seq.
InSeq(e, seq) == \E m \in DOMAIN seq : seq[m] = e

\* C6 (as claimed): once one strategy of the list has yielded a viable
\* candidate, no later strategy is queried, even if the candidate proved
\* unusable.
C6_NoLaterStrategyQueried ==
    op = "next" => \A i \in yielded : curLoc <= i

\* C6 (amended): every element a tap call acts on comes from the one strategy
\* handed to that call; a later strategy is queried exactly when the tap on
\* every earlier strategy returned Failure (also when an earlier strategy had
\* yielded a viable candidate whose click failed on every attempt); once a tap
\* returned Success no later strategy is queried and no key is pressed.
C6_FallThroughOnFailure ==
    op = "next" =>
        /\ \A a \in actedLog : a.h.loc = loc
        /\ \A k \in 1..Len(tapResults) :
              tapResults[k] =>
                  /\ k = Len(tapResults)
                  /\ epc = "done"
                  /\ eresult = "Success"
                  /\ keys = <<>>
                  /\ curLoc = k
        /\ \A k \in 1..(curLoc - 1) : k <= Len(tapResults) /\ ~tapResults[k]
        /\ keys # <<>> =>
              /\ Len(tapResults) = NStrategies
              /\ \A k \in 1..NStrategies : ~tapResults[k]

\* Strategy 1 yielded a viable candidate, its tap failed, and the Next button
\* was clicked through strategy 2.
C6_Witness ==
    /\ op = "next"
    /\ epc = "done"
    /\ 1 \in yielded
    /\ tapResults = <<FALSE, TRUE>>
    /\ curLoc = 2
    /\ eresult = "Success"

\* C7 (as claimed): a candidate whose is_displayed() check found it stale is
\* kept in the filtered result.
C7_StaleKept ==
    \A k \in DOMAIN elements :
        elements[k].disp = "stale" => InSeq(elements[k], found)

\* C7 (amended): a candidate whose is_displayed() check raises
\* StaleElementReferenceException is dropped from the result; a candidate
\* whose check raises any other exception is kept as viable.
C7_StaleDroppedErrorKept ==
    \A k \in DOMAIN elements :
        /\ elements[k].disp = "stale" => ~InSeq(elements[k], found)
        /\ elements[k].disp = "error" => InSeq(elements[k], found)
        /\ elements[k].disp = "shown" => InSeq(elements[k], found)
        /\ elements[k].disp = "hidden" => ~InSeq(elements[k], found)

\* A query result holding a stale candidate and one whose check raised another
\* exception: the filter returned a non-empty list.
C7_Witness ==
    /\ found # <<>>
    /\ \E k, m \in DOMAIN elements :
          /\ elements[k].disp = "stale"
          /\ elements[m].disp = "error"

\* C8: a StaleElementReferenceException raised by an element interaction never
\* leaves the code that interacted (it is recovered by re-resolving).
C8_StaleNeverEscapes ==
    ~(eresult = "raised" /\ excKind = "stale")

\* C9: in click_element_bulletproof and type_text_bulletproof every attempt
\* acts on a handle that a find call made inside that attempt returned, found
\* with the locator the caller passed; no handle of an earlier attempt is acted
\* on again.
C9_FreshHandlePerAttempt ==
    op \in {"click", "type", "next"} =>
        /\ \A a \in actedLog :
              /\ a.h.q > a.qStart
              /\ a.h.q = a.att + 1
              /\ a.h.loc = loc
        /\ \A a, b \in actedLog : a.att # b.att => a.h # b.h
        /\ epc = "find" => curLoc = loc

\* A click call whose three attempts each acted on an element.
C9_Witness ==
    /\ op = "click"
    /\ epc = "done"
    /\ Cardinality(actedLog) = ClickAttempts

\* C10: click_element_bulletproof and type_text_bulletproof never raise; they
\* return Success or Failure, and exhausting the attempt cap gives Failure.
C10_TapTypeNeverRaise ==
    op \in {"click", "type"} =>
        /\ eresult # "raised"
        /\ excKind = "none"
        /\ epc = "done" => eresult \in {"Success", "Failure"}
        /\ att <= (IF op = "click" THEN ClickAttempts ELSE TypeAttempts)
        /\ att = (IF op = "click" THEN ClickAttempts ELSE TypeAttempts) =>
              /\ epc = "done"
              /\ eresult = "Failure"

\* A type call whose last attempt found send_keys failing and the raw channel
\* unavailable: the cap is exhausted and the call returned Failure.
C10_Witness ==
    /\ op = "type"
    /\ epc = "done"
    /\ att = TypeAttempts
    /\ typeTrace.send # "ok"
    /\ typeTrace.adb = "raise"
    /\ eresult = "Failure"

\* find_element(s)_bulletproof has just returned to its caller.
FindReturned == epc = findRet /\ epc # "none"

\* C20: find_elements_bulletproof makes at most retry_attempts query passes;
\* it returns no element exactly when none of these passes gave a viable
\* candidate, and it never raises, whatever the query or is_displayed() throws.
C20_ResolveBounded ==
    /\ epc # "find_raised"
    /\ fAtt <= fRetries
    /\ FindReturned =>
          /\ found = <<>> <=> fAtt = fRetries
          /\ found # <<>> =>
                /\ fAtt + 1 <= fRetries
                /\ found = SelectSeq(elements, LAMBDA x : x.disp \in {"shown", "error"})
          /\ found = <<>> =>
                \A i \in DOMAIN elements : elements[i].disp \in {"hidden", "stale"}

C20_Witness ==
    /\ FindReturned
    /\ found = <<>>
    /\ fAtt = 3
    /\ elements # <<>>

\* C31: click_element_bulletproof resolves and clicks at most 3 times per
\* call; a click that raised, stale or not, uses up one of the 3 attempts and
\* never leaves the call; a resolve that finds nothing ends the call with
\* Failure at once, so no resolve ever follows it.
C31_ClickCapped ==
    op = "click" =>
       LET n == Cardinality(actedLog)
       IN /\ qn <= ClickAttempts
          /\ n <= ClickAttempts
          /\ qn <= n + 1
          /\ epc = "done" =>
                /\ eresult \in {"Success", "Failure"}
                /\ eresult = "Success" => (qn = n /\ att = n - 1)
                /\ eresult = "Failure" =>
                      \/ (qn = n + 1 /\ att = n)
                      \/ (n = ClickAttempts /\ att = ClickAttempts)

\* Two clicks raised and the third resolve found nothing.
C31_Witness ==
    /\ op = "click"
    /\ epc = "done"
    /\ eresult = "Failure"
    /\ Cardinality(actedLog) = 2
    /\ qn = 3

\* The last attempt of the type call injected the text: send_keys returned,
\* or the adb process was launched and returned, whatever its exit status.
Injected == typeTrace.send = "ok" \/ typeTrace.adb \in {"ok", "nonzero"}

\* C32 (as claimed): type_text_bulletproof returns Failure only after 3
\* attempts, each of which found no element or raised.
C32_FailureAfterThree ==
    (op = "type" /\ epc = "done" /\ eresult = "Failure") => qn = TypeAttempts

\* C32 (amended): the call returns Success exactly when its last attempt
\* injected the text, by send_keys or by an adb process that returned with
\* any exit status; it returns Failure as soon as an attempt finds no
\* element, or after 3 attempts that each raised.
C32_TypeResult ==
    (op = "type" /\ epc = "done") =>
       LET n == Cardinality(actedLog)
       IN /\ eresult \in {"Success", "Failure"}
          /\ eresult = "Success" <=> Injected
          /\ eresult = "Failure" =>
                \/ (qn = n + 1 /\ n < TypeAttempts)
                \/ (n = TypeAttempts /\ att = TypeAttempts /\ typeTrace.sig \in {"stale", "error"})

\* send_keys raised, adb returned a nonzero exit status, the call succeeded.
C32_Witness ==
    /\ op = "type"
    /\ epc = "done"
    /\ eresult = "Success"
    /\ typeTrace.focus = "ok"
    /\ typeTrace.send = "error"
    /\ typeTrace.adb = "nonzero"

\* Every locator strategy of click_next_production was tried and returned False.
AllStrategiesFailed ==
    /\ Len(tapResults) = NStrategies
    /\ \A k \in 1..NStrategies : ~tapResults[k]

\* C34: click_next_production presses ENTER only after all three locator
\* strategies returned Failure; it returns Failure only when the ENTER press
\* raised as well; once a strategy clicked, no later strategy is tried and no
\* key is pressed.
C34_EnterLast ==
    op = "next" =>
       /\ keys # <<>> => (AllStrategiesFailed /\ keys = <<KeyEnter>>)
       /\ \A k \in 1..Len(tapResults) :
             tapResults[k] => (k = Len(tapResults) /\ keys = <<>> /\ eresult = "Success")
       /\ epc = "done" =>
             /\ eresult \in {"Success", "Failure"}
             /\ eresult = "Failure" <=> (AllStrategiesFailed /\ keys = <<>>)

\* All three strategies failed and the ENTER press raised too.
C34_Witness ==
    /\ op = "next"
    /\ epc = "done"
    /\ eresult = "Failure"
    /\ AllStrategiesFailed
    /\ keys = <<>>

\* ---------------------------------------------------------------- text entry: actions

InitText ==
    /\ script = "none"
    /\ pc = "idle"
    /\ RunFields
    /\ ExecIdle
    /\ tv \in TextVariants
    /\ tpc = "call"
    /\ tEl = "none"
    /\ tText \in Texts
    /\ tDesc \in {"Year", "Other"}
    /\ field \in SeqsUpTo(Alphabet, MaxTextLen)
    /\ tLenRead = -1
    /\ tTrace = <<>>
    /\ tKeys = <<>>
    /\ tResults = <<>>
    /\ HoldIdle
    /\ SelIdle
    /\ WaitIdle
    /\ NameIdle
    /\ GeomIdle
    /\ DetailIdle
    /\ ImssIdle

\* One backend call of the running text entry, with its outcome.
Called(c, r, n) == Append(tTrace, [c |-> c, r |-> r, n |-> n])

\* The function returns val to its caller.
TextReturn(val) ==
    /\ tResults' = Append(tResults, val)
    /\ tpc' = "call"

\* A step calls the function with an element (or None) on the same field with
\* the same text: "if not element: return False".
TextCall ==
    /\ tpc = "call"
    /\ Len(tResults) < MaxCalls
    /\ \E e \in {"el", "none"} :
          /\ tEl' = e
          /\ IF e = "none"
             THEN TextReturn(FALSE)
             ELSE /\ tpc' = IF FocusFirst(tv) THEN "focus" ELSE "clear"
                  /\ UNCHANGED tResults
    /\ tTrace' = <<>>
    /\ tKeys' = <<>>
    /\ tLenRead' = -1
    /\ UNCHANGED <<tv, tText, tDesc, field>>
    /\ UNCHANGED nonTextVars

\* element.click() to focus; an exception reaches the outer handler.
TextFocus ==
    /\ tpc = "focus"
    /\ \E o \in {"ok", "raise"} :
          /\ tTrace' = Called("click", o, 0)
          /\ IF o = "ok"
             THEN /\ tpc' = "clear"
                  /\ UNCHANGED tResults
             ELSE TextReturn(FALSE)
    /\ UNCHANGED <<tv, tEl, tText, tDesc, field, tLenRead, tKeys>>
    /\ UNCHANGED nonTextVars

\* element.clear()
TextClear ==
    /\ tpc = "clear"
    /\ NativeClearUsed(tv, tDesc)
    /\ \E o \in {"ok", "raise"} :
          /\ tTrace' = Called("clear", o, 0)
          /\ IF o = "ok"
             THEN /\ field' = <<>>
                  /\ tpc' = "send"
                  /\ UNCHANGED tResults
             ELSE /\ UNCHANGED field
                  /\ IF ClearFailure(tv) = "fail"
                     THEN TextReturn(FALSE)
                     ELSE /\ tpc' = "readlen"
                          /\ UNCHANGED tResults
    /\ UNCHANGED <<tv, tEl, tText, tDesc, tLenRead, tKeys>>
    /\ UNCHANGED nonTextVars

\* The backspace fallback raised at some point.
FallbackRaised ==
    IF FallbackFailure(tv) = "fail"
    THEN TextReturn(FALSE)
    ELSE /\ tpc' = "send"
         /\ UNCHANGED tResults

\* current_text = element.get_attribute("text") or ""
TextReadLen ==
    /\ tpc = "readlen"
    /\ \E o \in {"ok", "raise"} :
          /\ tTrace' = Called("get_text", o, 0)
          /\ IF o = "ok"
             THEN /\ tLenRead' = Len(field)
                  /\ tpc' = "dels"
                  /\ UNCHANGED tResults
             ELSE /\ UNCHANGED tLenRead
                  /\ FallbackRaised
    /\ UNCHANGED <<tv, tEl, tText, tDesc, field, tKeys>>
    /\ UNCHANGED nonTextVars

\* The loop of press_keycode(67): k presses succeed, then either the loop is
\* over or the next press raises.
TextDels ==
    /\ tpc = "dels"
    /\ \E k \in 0..DelCount(tLenRead) :
          /\ field' = AfterDels(field, k)
          /\ IF k = DelCount(tLenRead)
             THEN /\ tTrace' = Called("dels", "ok", k)
                  /\ tpc' = "send"
                  /\ UNCHANGED tResults
             ELSE /\ tTrace' = Called("dels", "raise", k)
                  /\ FallbackRaised
    /\ UNCHANGED <<tv, tEl, tText, tDesc, tLenRead, tKeys>>
    /\ UNCHANGED nonTextVars

\* element.send_keys(str(text))
TextSend ==
    /\ tpc = "send"
    /\ \E o \in {"ok", "raise"} :
          /\ tTrace' = Called("send", o, 0)
          /\ IF o = "ok"
             THEN /\ field' = field \o tText
                  /\ TextReturn(TRUE)
             ELSE /\ UNCHANGED field
                  /\ IF SendFailure(tv) = "fail"
                     THEN TextReturn(FALSE)
                     ELSE /\ tpc' = "adb"
                          /\ UNCHANGED tResults
    /\ UNCHANGED <<tv, tEl, tText, tDesc, tLenRead, tKeys>>
    /\ UNCHANGED nonTextVars

\* subprocess.run(['adb', 'shell', 'input', 'text', str(text)], check=True)
TextAdb ==
    /\ tpc = "adb"
    /\ \E o \in AdbOutcomes :
          /\ tTrace' = Called("adb", o, 0)
          /\ IF o = "ok"
             THEN /\ field' = field \o tText
                  /\ TextReturn(TRUE)
             ELSE /\ UNCHANGED field
                  /\ IF AdbCaught(tv, o) /\ IsDigitText(tText)
                     THEN /\ tpc' = "keys"
                          /\ UNCHANGED tResults
                     ELSE TextReturn(FALSE)
    /\ UNCHANGED <<tv, tEl, tText, tDesc, tLenRead, tKeys>>
    /\ UNCHANGED nonTextVars

\* for digit in str(text): press_keycode(7 + int(digit)); k presses succeed,
\* then either the loop is over or the next press raises.
TextKeys ==
    /\ tpc = "keys"
    /\ \E k \in 0..Len(tText) :
          /\ tKeys' = [i \in 1..k |-> KeyCodeOf(tText[i])]
          /\ field' = field \o SubSeq(tText, 1, k)
          /\ IF k = Len(tText)
             THEN /\ tTrace' = Called("keys", "ok", k)
                  /\ TextReturn(TRUE)
             ELSE /\ tTrace' = Called("keys", "raise", k)
                  /\ TextReturn(FALSE)
    /\ UNCHANGED <<tv, tEl, tText, tDesc, tLenRead>>
    /\ UNCHANGED nonTextVars

NextText ==
    \/ TextCall
    \/ TextFocus
    \/ TextClear
    \/ TextReadLen
    \/ TextDels
    \/ TextSend
    \/ TextAdb
    \/ TextKeys

SpecText == InitText /\ [][NextText]_vars

\* ---------------------------------------------------------------- properties of text entry

\* The running (or last finished) call made backend call c with outcome r.
TraceHas(c, r) == \E i \in DOMAIN tTrace : tTrace[i].c = c /\ tTrace[i].r = r

\* A call has returned and nothing else began.
TextReturned == tpc = "call" /\ tResults # <<>>

LastResult == tResults[Len(tResults)]

\* The clearing of the last call ran to its end.
ClearingCompleted == TraceHas("clear", "ok") \/ TraceHas("dels", "ok")

\* C11: a text entry into a field described as year-like never invokes the
\* element's native clear.
C11_YearNeverNativeClear ==
    tDesc = "Year" => \A i \in DOMAIN tTrace : tTrace[i].c # "clear"

\* C12: a call handed an element that it could focus returns Failure only
\* after direct injection was attempted and failed: a failure of clearing
\* alone neither produces Failure nor keeps injection from being attempted.
C12_FailureOnlyAfterInjection ==
    (/\ TextReturned
     /\ LastResult = FALSE
     /\ tEl = "el"
     /\ ~TraceHas("click", "raise"))
    => TraceHas("send", "raise")

C17_TacticOrder ==
    /\ \A i \in DOMAIN tTrace :
          /\ tTrace[i].c = "adb" =>
                \E j \in 1..(i - 1) : tTrace[j].c = "send" /\ tTrace[j].r = "raise"
          /\ tTrace[i].c = "keys" =>
                /\ IsDigitText(tText)
                /\ \E j \in 1..(i - 1) : tTrace[j].c = "send" /\ tTrace[j].r = "raise"
                /\ \E j \in 1..(i - 1) : tTrace[j].c = "adb" /\ tTrace[j].r # "ok"
          /\ tTrace[i].c \in {"send", "adb", "keys"} =>
                \A j \in DOMAIN tTrace : tTrace[j].c = tTrace[i].c => j = i
    /\ Len(tKeys) <= Len(tText)
    /\ \A i \in DOMAIN tKeys : tKeys[i] = 7 + DigitVal(tText[i])
    /\ tKeys # <<>> => TraceHas("keys", "ok") \/ TraceHas("keys", "raise")
    /\ TraceHas("keys", "ok") => Len(tKeys) = Len(tText)

C17_Witness ==
    /\ TextReturned
    /\ LastResult = TRUE
    /\ TraceHas("keys", "ok")
    /\ tKeys = <<8, 16>>

\* The phase a backend call of the text entry belongs to.
PhaseRank(c) ==
    CASE c = "click" -> 1
      [] c \in {"clear", "get_text", "dels"} -> 2
      [] OTHER -> 3

\* C27: the calls of one invocation go Focus, Clear, Inject and never back,
\* and an invocation that injects has tapped the element first and has then
\* attempted clearing.
C27_PhasesLinear ==
    /\ \A i, j \in DOMAIN tTrace : i < j => PhaseRank(tTrace[i].c) <= PhaseRank(tTrace[j].c)
    /\ (\E i \in DOMAIN tTrace : PhaseRank(tTrace[i].c) = 3) =>
          /\ tTrace[1].c = "click"
          /\ \E i \in DOMAIN tTrace : PhaseRank(tTrace[i].c) = 2

\* ---------------------------------------------------------------- press and hold: actions

InitHold ==
    /\ script = "none"
    /\ pc = "idle"
    /\ RunFields
    /\ ExecIdle
    /\ TextIdle
    /\ hv \in HoldVariants
    /\ hpc = "call"
    /\ hReq = HoldRequest(hv)
    /\ hTarget = "none"
    /\ hSel = 0
    /\ hK = 0
    /\ hPrelude = <<>>
    /\ hTiers = <<>>
    /\ hResult = "none"
    /\ hExc = "none"
    /\ SelIdle
    /\ WaitIdle
    /\ NameIdle
    /\ GeomIdle
    /\ DetailIdle
    /\ ImssIdle

\* The step ends with value val.
HoldReturn(val) ==
    /\ hpc' = "done"
    /\ hResult' = val
    /\ UNCHANGED hExc

\* An exception of class x leaves the step.
HoldRaise(x) ==
    /\ hpc' = "done"
    /\ hResult' = "raised"
    /\ hExc' = x

\* One gesture was attempted at the element or at a screen point.
Attempted(tier, at, r) ==
    Append(hTiers, [tier |-> tier, at |-> at, ms |-> TierMs(hv, tier), r |-> r])

\* new.py / comp.py: the step looks the control up; main.py starts its selector loop.
HoldCall ==
    /\ hpc = "call"
    /\ IF hv = "main"
       THEN /\ hSel' = 1
            /\ hpc' = "select"
            /\ UNCHANGED hTarget
       ELSE /\ \E t \in {"el", "none"} :
                  /\ hTarget' = t
                  /\ hpc' = IF t = "none" THEN "pointswipe"
                            ELSE IF hv = "new" THEN "prelude" ELSE "center"
            /\ UNCHANGED hSel
    /\ hK' = 1
    /\ UNCHANGED <<hv, hReq, hPrelude, hTiers, hResult, hExc>>
    /\ UNCHANGED nonHoldVars

\* main.py: find_element_safely for the next selector; it catches TimeoutException only.
HoldSelect ==
    /\ hpc = "select"
    /\ hSel <= HoldSelectors
    /\ \E o \in {"found", "timeout"} \cup HoldRaises :
          CASE o = "found" ->
                 /\ hTarget' = "el"
                 /\ hK' = 1
                 /\ hpc' = "center"
                 /\ UNCHANGED <<hSel, hResult, hExc>>
            [] o = "timeout" ->
                 /\ hSel' = hSel + 1
                 /\ UNCHANGED <<hTarget, hK, hpc, hResult, hExc>>
            [] OTHER ->
                 /\ HoldRaise(o)
                 /\ UNCHANGED <<hTarget, hK, hSel>>
    /\ UNCHANGED <<hv, hReq, hPrelude, hTiers>>
    /\ UNCHANGED nonHoldVars

\* new.py: hide_keyboard() and _scroll_into_view(el), both swallow every exception.
HoldPrelude ==
    /\ hpc = "prelude"
    /\ \E k \in {"ok", "raise"}, sc \in {"ok", "raise"} : hPrelude' = <<k, sc>>
    /\ hpc' = "center"
    /\ UNCHANGED <<hv, hReq, hTarget, hSel, hK, hTiers, hResult, hExc>>
    /\ UNCHANGED nonHoldVars

\* long_press_captcha of main.py returned False: the loop goes to the next selector.
HoldNextSelector ==
    /\ hSel' = hSel + 1
    /\ hpc' = "select"
    /\ UNCHANGED <<hResult, hExc>>

\* el.location / el.size are read to compute the center.
HoldCenter ==
    /\ hpc = "center"
    /\ \E o \in {"ok"} \cup HoldRaises :
          IF o = "ok"
          THEN /\ hpc' = "tier"
               /\ UNCHANGED <<hSel, hResult, hExc>>
          ELSE CASE CenterFailure(hv) = "propagate" -> HoldRaise(o) /\ UNCHANGED hSel
                 [] CenterFailure(hv) = "point" ->
                      /\ hpc' = "pointswipe"
                      /\ UNCHANGED <<hSel, hResult, hExc>>
                 [] CenterFailure(hv) = "false" -> HoldNextSelector
    /\ UNCHANGED <<hv, hReq, hTarget, hK, hPrelude, hTiers>>
    /\ UNCHANGED nonHoldVars

\* The next gesture on the resolved element, inside its try block.
HoldTier ==
    /\ hpc = "tier"
    /\ hK <= Len(ElementTiers(hv))
    /\ \E o \in TierOutcomes(ElementTiers(hv)[hK]) :
          /\ hTiers' = Attempted(ElementTiers(hv)[hK], "el", o)
          /\ IF TierCompletes(o)
             THEN /\ HoldReturn("Success")
                  /\ UNCHANGED <<hK, hSel>>
             ELSE IF hK < Len(ElementTiers(hv))
             THEN /\ hK' = hK + 1
                  /\ UNCHANGED <<hpc, hSel, hResult, hExc>>
             ELSE /\ UNCHANGED hK
                  /\ CASE TiersExhausted(hv) = "Failure" ->
                            HoldReturn("Failure") /\ UNCHANGED hSel
                       [] TiersExhausted(hv) = "point" ->
                            /\ hpc' = "pointswipe"
                            /\ UNCHANGED <<hSel, hResult, hExc>>
                       [] TiersExhausted(hv) = "false" -> HoldNextSelector
    /\ UNCHANGED <<hv, hReq, hTarget, hPrelude>>
    /\ UNCHANGED nonHoldVars

\* new.py / comp.py: adb swipe at a screen-fraction point, outside every try block.
HoldPointSwipe ==
    /\ hpc = "pointswipe"
    /\ \E o \in TierOutcomes("pointswipe") :
          /\ hTiers' = Attempted("pointswipe", "point", o)
          /\ IF TierCompletes(o) THEN HoldReturn("Success") ELSE HoldRaise(o)
    /\ UNCHANGED <<hv, hReq, hTarget, hSel, hK, hPrelude>>
    /\ UNCHANGED nonHoldVars

\* main.py after the selector loop: get_window_size(), outside the try block.
HoldWindowSize ==
    /\ hpc = "select"
    /\ hSel > HoldSelectors
    /\ \E o \in {"ok"} \cup HoldRaises :
          IF o = "ok"
          THEN /\ hpc' = "pointpause"
               /\ UNCHANGED <<hResult, hExc>>
          ELSE HoldRaise(o)
    /\ UNCHANGED <<hv, hReq, hTarget, hSel, hK, hPrelude, hTiers>>
    /\ UNCHANGED nonHoldVars

\* main.py: the pause gesture at the screen point, inside try / except Exception.
HoldPointPause ==
    /\ hpc = "pointpause"
    /\ \E o \in {"ok"} \cup HoldRaises :
          /\ hTiers' = Attempted("pointpause", "point", o)
          /\ HoldReturn(IF o = "ok" THEN "Success" ELSE "Failure")
    /\ UNCHANGED <<hv, hReq, hTarget, hSel, hK, hPrelude>>
    /\ UNCHANGED nonHoldVars

NextHold ==
    \/ HoldCall
    \/ HoldSelect
    \/ HoldPrelude
    \/ HoldCenter
    \/ HoldTier
    \/ HoldPointSwipe
    \/ HoldWindowSize
    \/ HoldPointPause

SpecHold == InitHold /\ [][NextHold]_vars

\* ---------------------------------------------------------------- properties of press and hold

\* Place of a gesture in the fallback order.
TierRank(tier) ==
    CASE tier = "native" -> 1
      [] tier = "ticks" -> 2
      [] tier = "swipe" -> 3
      [] tier = "drag" -> 4
      [] OTHER -> 5

C15_HoldAtLeastRequested ==
    hReq = 15000 => \A i \in DOMAIN hTiers : hTiers[i].ms >= 15000

C15_Witness ==
    /\ hv = "new"
    /\ hReq = 15000
    /\ Len(hTiers) = 3
    /\ hTiers[1].r # "ok"
    /\ hTiers[2].r # "ok" /\ hTiers[2].ms = 15000
    /\ hTiers[3].tier = "swipe" /\ hTiers[3].r = "ok" /\ hTiers[3].ms = 15000
    /\ hResult = "Success"

\* C16: handed a resolved element, long_press_15s_strong never raises, and it
\* returns Failure only after every one of its four tiers raised.
C16_HoldNeverRaises ==
    (hv = "new" /\ hTarget = "el") =>
       /\ hResult # "raised"
       /\ hResult = "Failure" =>
             /\ Len(hTiers) = 4
             /\ \A i \in DOMAIN hTiers : hTiers[i].r # "ok"

\* C23: no gesture tier on a resolved element is issued before the keyboard
\* was hidden and the scroll nudge was made (whether or not either failed).
C23_PreludeBeforeTiers ==
    (\E i \in 1..Len(hTiers) : hTiers[i].at = "el") => Len(hPrelude) = 2

\* C33: in long_press_15s_strong the adb swipe ends the gesture with Success
\* whenever the process was launched and returned, whatever its exit status;
\* the micro-drag is attempted only after launching the swipe raised; Failure
\* is returned only when all four tiers raised.
C33_SwipeEndsGesture ==
    (hv = "new" /\ hTarget = "el") =>
       /\ \A i \in DOMAIN hTiers :
             /\ (hTiers[i].tier = "swipe" /\ hTiers[i].r \in {"ok", "nonzero"}) =>
                   (i = Len(hTiers) /\ hpc = "done" /\ hResult = "Success")
             /\ hTiers[i].tier = "drag" =>
                   (i > 1 /\ hTiers[i - 1].tier = "swipe" /\ hTiers[i - 1].r \in HoldRaises)
       /\ hResult = "Failure" =>
             (Len(hTiers) = 4 /\ \A i \in DOMAIN hTiers : hTiers[i].r \in HoldRaises)

\* The swipe process returned a nonzero exit status and the gesture succeeded.
C33_Witness ==
    /\ hv = "new"
    /\ hpc = "done"
    /\ hResult = "Success"
    /\ Len(hTiers) = 3
    /\ hTiers[3].tier = "swipe"
    /\ hTiers[3].r = "nonzero"

\* ---------------------------------------------------------------- dropdown selection: actions

InitSel ==
    /\ script = "none"
    /\ pc = "idle"
    /\ RunFields
    /\ ExecIdle
    /\ TextIdle
    /\ HoldIdle
    /\ sv \in SelVariants
    /\ spc = "open"
    /\ sPass = 0
    /\ sStrat = 0
    /\ sTrace = <<>>
    /\ sResult = "none"
    /\ WaitIdle
    /\ NameIdle
    /\ GeomIdle
    /\ DetailIdle
    /\ ImssIdle

Did(ev, r) == Append(sTrace, [ev |-> ev, pass |-> sPass, strat |-> sStrat, r |-> r])

\* select_dropdown_option ends: "Success", "Failure", or "raised".
SelEnd(val) ==
    /\ spc' = "done"
    /\ sResult' = val

\* An exception reached the try around the whole function.
SelOuter ==
    SelEnd(IF OuterHandler(sv) = "false" THEN "Failure" ELSE "raised")

\* dropdown_element.click()
SelOpen ==
    /\ spc = "open"
    /\ \E o \in {"ok", "raise"} :
          /\ sTrace' = Did("open", o)
          /\ IF o = "ok"
             THEN /\ spc' = "try"
                  /\ sPass' = 1
                  /\ sStrat' = 1
                  /\ UNCHANGED sResult
             ELSE /\ SelOuter
                  /\ UNCHANGED <<sPass, sStrat>>
    /\ UNCHANGED sv
    /\ UNCHANGED nonSelVars

\* The loop of the running pass moves to its next selector, or is over.
SelGoOn ==
    IF sStrat < Len(SelStrategies)
    THEN /\ sStrat' = sStrat + 1
         /\ UNCHANGED <<spc, sPass, sResult>>
    ELSE IF sPass = 1
    THEN /\ spc' = "scroll"
         /\ UNCHANGED <<sPass, sStrat, sResult>>
    ELSE /\ SelEnd("Failure")
         /\ UNCHANGED <<sPass, sStrat>>

\* One strategy of a pass: query the option, tap it.
SelTry ==
    /\ spc = "try"
    /\ \E o \in TryOutcomes :
          /\ sTrace' = Did("try", o)
          /\ CASE o = "selected" ->
                    /\ SelEnd("Success")
                    /\ UNCHANGED <<sPass, sStrat>>
               [] o = "nomatch" /\ NoMatchReaction(sv, sPass) = "continue" -> SelGoOn
               [] o \in {"query_raise", "tap_raise"}
                  /\ RaiseReaction(sv, sPass) = "continue" -> SelGoOn
               [] OTHER ->
                    /\ SelEnd("Failure")
                    /\ UNCHANGED <<sPass, sStrat>>
    /\ UNCHANGED sv
    /\ UNCHANGED nonSelVars

\* self.driver.swipe(540, 800, 540, 600, 1000) after the first pass.
SelScroll ==
    /\ spc = "scroll"
    /\ \E o \in {"ok", "raise"} :
          /\ sTrace' = Did("scroll", o)
          /\ IF o = "ok"
             THEN /\ spc' = "try"
                  /\ sPass' = 2
                  /\ sStrat' = 1
                  /\ UNCHANGED sResult
             ELSE /\ SelEnd(IF ScrollFailure(sv) = "false" THEN "Failure" ELSE "raised")
                  /\ UNCHANGED <<sPass, sStrat>>
    /\ UNCHANGED sv
    /\ UNCHANGED nonSelVars

NextSel ==
    \/ SelOpen
    \/ SelTry
    \/ SelScroll

SpecSel == InitSel /\ [][NextSel]_vars

\* ---------------------------------------------------------------- properties of dropdown selection

\* The tries of pass p, in the order they were made.
TriesOf(p) == SelectSeq(sTrace, LAMBDA x : x.ev = "try" /\ x.pass = p)

Scrolls == SelectSeq(sTrace, LAMBDA x : x.ev = "scroll")

\* C18: the control is opened first; each pass tries exact text, substring
\* text, substring label in this order and stops at the first selection; there
\* is at most one scroll, made only after a first pass that selected nothing,
\* and at most two passes; in the second pass a strategy that fails does not
\* keep the remaining strategies from being tried.
C18_SelectOrder ==
    /\ sTrace # <<>> => sTrace[1].ev = "open"
    /\ \A i \in DOMAIN sTrace : sTrace[i].ev = "open" => i = 1
    /\ \A p \in 1..2 :
          /\ Len(TriesOf(p)) <= 3
          /\ \A i \in DOMAIN TriesOf(p) :
                /\ TriesOf(p)[i].strat = i
                /\ i < Len(TriesOf(p)) => TriesOf(p)[i].r # "selected"
    /\ \A i \in DOMAIN sTrace : sTrace[i].pass \in 0..2
    /\ Len(Scrolls) <= 1
    /\ Scrolls # <<>> => Len(TriesOf(1)) = 3
    /\ TriesOf(2) # <<>> => Scrolls # <<>> /\ Scrolls[1].r = "ok"
    /\ (sResult = "Failure" /\ Scrolls # <<>> /\ Scrolls[1].r = "ok") =>
          Len(TriesOf(2)) = 3

\* C19: select_dropdown_option never raises; when opening, the scroll, or a
\* query or tap after the scroll raises, or nothing was selected in the
\* second pass, it returns Failure.
C19_SelectNeverRaises ==
    /\ sResult # "raised"
    /\ spc = "done" =>
          (sResult = "Failure" <=>
              \A i \in DOMAIN sTrace : sTrace[i].r # "selected")
    /\ (\E i \in DOMAIN sTrace :
           sTrace[i].ev \in {"open", "scroll"} /\ sTrace[i].r = "raise") =>
          sResult = "Failure"

C19_Witness ==
    /\ sv = "outlook"
    /\ sResult = "Failure"
    /\ Scrolls # <<>>
    /\ Scrolls[1].r = "raise"

\* ---------------------------------------------------------------- waits: actions

InitWait ==
    /\ script = "none"
    /\ pc = "idle"
    /\ RunFields
    /\ ExecIdle
    /\ TextIdle
    /\ HoldIdle
    /\ SelIdle
    /\ wv \in WaitVariants
    /\ wpc = [r \in Runs |-> "poll"]
    /\ wPoll = [r \in Runs |-> 0]
    /\ wGaveUp = [r \in Runs |-> FALSE]
    /\ wNow = [r \in Runs |-> 0]
    /\ wStart = [r \in Runs |-> 0]
    /\ wPasses = [r \in Runs |-> 0]
    /\ wRet = [r \in Runs |-> "none"]
    /\ NameIdle
    /\ GeomIdle
    /\ DetailIdle
    /\ ImssIdle

\* Where a run goes when its poll loop is over: step7_post_captcha takes
\* start = time.time() and enters the burst loop, wait_for_app_load returns.
AfterPolls(v) == IF v = "post" THEN "loop" ELSE "done"

\* One iteration of the poll loop in every run that is in it, on the same
\* backend response.
WaitPoll ==
    /\ \E r \in Runs : wpc[r] = "poll"
    /\ \E resp \in PollResponses :
          LET polling(r) == wpc[r] = "poll"
              again(r) == resp = "visible" \/ (resp = "raise" /\ PollRaise(wv) = "poll_again")
              last(r) == NextPoll(wPoll[r]) >= PollLimit(wv)
          IN /\ wPoll' = [r \in Runs |->
                            IF polling(r) /\ again(r) THEN NextPoll(wPoll[r]) ELSE wPoll[r]]
             /\ wGaveUp' = [r \in Runs |->
                            IF polling(r) /\ again(r) /\ last(r) THEN TRUE ELSE wGaveUp[r]]
             /\ wpc' = [r \in Runs |->
                            IF ~polling(r) THEN wpc[r]
                            ELSE IF resp = "raise" /\ PollRaise(wv) = "propagate" THEN "done"
                            ELSE IF resp = "gone" THEN AfterPolls(wv)
                            ELSE IF last(r) THEN AfterPolls(wv)
                            ELSE "poll"]
             /\ wRet' = [r \in Runs |->
                            IF ~polling(r) THEN wRet[r]
                            ELSE IF resp = "raise" /\ PollRaise(wv) = "propagate" THEN "raised"
                            ELSE IF wv = "load" /\ (resp = "gone" \/ last(r)) THEN "returned"
                            ELSE wRet[r]]
             /\ wStart' = [r \in Runs |-> IF polling(r) THEN wNow[r] ELSE wStart[r]]
    /\ UNCHANGED <<wv, wNow, wPasses>>
    /\ UNCHANGED nonWaitVars

\* One evaluation of the while condition in every run that is in the burst
\* loop and, where it holds, one pass on the same backend responses; the
\* calls of the pass take a time chosen per run, then time.sleep(0.4).
WaitPass ==
    /\ \E r \in Runs : wpc[r] = "loop"
    /\ \E resp \in PassResponses, dur \in [Runs -> {0, MaxCallDur}] :
          LET looping(r) == wpc[r] = "loop"
              inside(r) == looping(r) /\ InBudget(wNow[r], wStart[r])
              reached == resp \in {"inbox", "clicked_inbox"}
          IN /\ wPasses' = [r \in Runs |-> IF inside(r) THEN wPasses[r] + 1 ELSE wPasses[r]]
             /\ wNow' = [r \in Runs |->
                           IF inside(r) /\ ~reached
                           THEN wNow[r] + dur[r] + PassSleepUnits
                           ELSE wNow[r]]
             /\ wpc' = [r \in Runs |->
                           IF ~looping(r) THEN wpc[r]
                           ELSE IF ~inside(r) THEN "final"
                           ELSE IF reached THEN "done"
                           ELSE "loop"]
             /\ wRet' = [r \in Runs |-> IF inside(r) /\ reached THEN "True" ELSE wRet[r]]
    /\ UNCHANGED <<wv, wPoll, wGaveUp, wStart>>
    /\ UNCHANGED nonWaitVars

\* The final inbox probe after the loop; the step returns True either way.
WaitFinal ==
    /\ \E r \in Runs : wpc[r] = "final"
    /\ wpc' = [r \in Runs |-> IF wpc[r] = "final" THEN "done" ELSE wpc[r]]
    /\ wRet' = [r \in Runs |-> IF wpc[r] = "final" THEN "True" ELSE wRet[r]]
    /\ UNCHANGED <<wv, wPoll, wGaveUp, wNow, wStart, wPasses>>
    /\ UNCHANGED nonWaitVars

NextWait ==
    \/ WaitPoll
    \/ WaitPass
    \/ WaitFinal

SpecWait == InitWait /\ [][NextWait]_vars

\* Every backend call returns and every sleep ends.
LiveWait == SpecWait /\ WF_vars(NextWait)

\* ---------------------------------------------------------------- properties of the waits

WaitsOver == \A r \in Runs : wpc[r] = "done"

\* C21: the poll loops and the burst loop are bounded: provided every backend
\* call returns, each wait ends, and the wait for the progress indicator
\* gives up after its fixed number of polls even if it never disappears.
C21_WaitsTerminate == <>WaitsOver

C21_Witness ==
    /\ wv = "post"
    /\ WaitsOver
    /\ wGaveUp[1]
    /\ wPoll[1] = 45
    /\ wPasses[1] = 18

\* C28: two runs fed the same backend responses make the same backend calls
\* (the same number of passes of the burst loop) and return the same value,
\* however long the calls and the sleeps take.
C28_SameCallsSameResult ==
    WaitsOver => (wPasses[1] = wPasses[2] /\ wRet[1] = wRet[2])

\* ---------------------------------------------------------------- name step: actions

InitName ==
    /\ script = "none"
    /\ pc = "idle"
    /\ RunFields
    /\ ExecIdle
    /\ TextIdle
    /\ HoldIdle
    /\ SelIdle
    /\ WaitIdle
    /\ nField = 1
    /\ nDel = 0
    /\ nLen \in NameLens
    /\ nPrev = NoEvent
    /\ nLast = NoEvent
    /\ nResult = "none"
    /\ npc = "start"
    /\ GeomIdle
    /\ DetailIdle
    /\ ImssIdle

Log1(ev) == nPrev' = nLast /\ nLast' = ev

Log2(ev1, ev2) == nPrev' = ev1 /\ nLast' = ev2

\* An exception inside the outer try.
NameFail(kind, o) ==
    /\ Log1(Event(kind, FALSE))
    /\ npc' = IF NameHandler(o) = "fallback" THEN "fallback" ELSE "done"
    /\ nResult' = IF NameHandler(o) = "fallback" THEN nResult ELSE "raised"
    /\ UNCHANGED <<nField, nDel>>

\* time.sleep(2), then find_elements_bulletproof for the EditText elements.
NameFind ==
    /\ npc = "start"
    /\ \E two \in BOOLEAN :
          /\ Log2(Sleep, Event("find", two))
          /\ npc' = IF two THEN "click" ELSE "hide"
    /\ UNCHANGED <<nField, nDel, nResult>>
    /\ UNCHANGED nLen
    /\ UNCHANGED nonNameVars

\* first_elem.click() / last_elem.click(), time.sleep(0.5)
NameClick ==
    /\ npc = "click"
    /\ \E o \in NameOutcomes :
          IF o = "ok"
          THEN /\ Log2(Event("click", TRUE), Sleep)
               /\ npc' = "clear"
               /\ UNCHANGED <<nField, nDel, nResult>>
          ELSE NameFail("click", o)
    /\ UNCHANGED nLen
    /\ UNCHANGED nonNameVars

\* elem.clear(); a failure (bare except) starts the backspace loop; then
\* time.sleep(0.3)
NameClear ==
    /\ npc = "clear"
    /\ \E ok \in BOOLEAN :
          IF ok
          THEN /\ Log2(Event("clear", TRUE), Sleep)
               /\ npc' = "send"
               /\ nDel' = nDel
          ELSE /\ Log1(Event("clear", FALSE))
               /\ npc' = "dels"
               /\ nDel' = 0
    /\ UNCHANGED <<nField, nResult>>
    /\ UNCHANGED nLen
    /\ UNCHANGED nonNameVars

\* self.driver.press_keycode(67), time.sleep(0.02); after the tenth press
\* time.sleep(0.3).  The loop is inside an except block: what it raises goes
\* to the outer try.
NameDel ==
    /\ npc = "dels"
    /\ \E o \in NameOutcomes :
          IF o = "ok"
          THEN /\ Log2(Event("del", TRUE), Sleep)
               /\ nDel' = nDel + 1
               /\ npc' = IF nDel + 1 = NameDels THEN "send" ELSE "dels"
               /\ UNCHANGED <<nField, nResult>>
          ELSE NameFail("del", o)
    /\ UNCHANGED nLen
    /\ UNCHANGED nonNameVars

\* elem.send_keys(name), print; the next statement is last_elem.click() for
\* the first field and self.driver.hide_keyboard() for the second.
NameSend ==
    /\ npc = "send"
    /\ \E o \in NameOutcomes :
          IF o = "ok"
          THEN /\ Log1(Event("send", TRUE))
               /\ npc' = IF nField = 1 THEN "click" ELSE "hide"
               /\ nField' = IF nField = 1 THEN 2 ELSE nField
               /\ UNCHANGED <<nDel, nResult>>
          ELSE NameFail("send", o)
    /\ UNCHANGED nLen
    /\ UNCHANGED nonNameVars

\* except StaleElementReferenceException: type_text_bulletproof for the first
\* field (it ends with time.sleep(0.5) when it typed and with a failed call
\* when it returns False), its result is not looked at.
NameFallbackType ==
    /\ npc = "fallback"
    /\ \E typed \in BOOLEAN :
          IF typed
          THEN Log2(Event("send", TRUE), Sleep)
          ELSE Log1(Event("find", FALSE))
    /\ npc' = "fb_find"
    /\ UNCHANGED <<nField, nDel, nResult>>
    /\ UNCHANGED nLen
    /\ UNCHANGED nonNameVars

\* second_field = self.driver.find_element(...instance(1)), second_field.click(),
\* time.sleep(0.5); every exception of the block is swallowed.
NameFbFocus ==
    /\ npc = "fb_find"
    /\ \E got \in BOOLEAN, clicked \in BOOLEAN :
          IF ~got
          THEN Log1(Event("find", FALSE)) /\ npc' = "hide"
          ELSE IF ~clicked
          THEN Log2(Event("find", TRUE), Event("click", FALSE)) /\ npc' = "hide"
          ELSE Log2(Event("click", TRUE), Sleep) /\ npc' = "fb_dels"
    /\ nDel' = 0
    /\ UNCHANGED <<nField, nResult>>
    /\ UNCHANGED nLen
    /\ UNCHANGED nonNameVars

\* the ten DEL presses of the fallback
NameFbDel ==
    /\ npc = "fb_dels"
    /\ \E ok \in BOOLEAN :
          IF ok
          THEN /\ Log2(Event("del", TRUE), Sleep)
               /\ nDel' = nDel + 1
               /\ npc' = IF nDel + 1 = NameDels THEN "fb_send" ELSE "fb_dels"
          ELSE /\ Log1(Event("del", FALSE))
               /\ nDel' = nDel
               /\ npc' = "hide"
    /\ UNCHANGED <<nField, nResult>>
    /\ UNCHANGED nLen
    /\ UNCHANGED nonNameVars

\* second_field.send_keys(last_name), print
NameFbSend ==
    /\ npc = "fb_send"
    /\ \E ok \in BOOLEAN : Log1(Event("send", ok))
    /\ npc' = "hide"
    /\ UNCHANGED <<nField, nDel, nResult>>
    /\ UNCHANGED nLen
    /\ UNCHANGED nonNameVars

\* self.driver.hide_keyboard(), time.sleep(0.8); except: pass
NameHide ==
    /\ npc = "hide"
    /\ \E ok \in BOOLEAN :
          IF ok
          THEN Log2(Event("hide", TRUE), Sleep)
          ELSE Log1(Event("hide", FALSE))
    /\ npc' = "next"
    /\ UNCHANGED <<nField, nDel, nResult>>
    /\ UNCHANGED nLen
    /\ UNCHANGED nonNameVars

\* return self.click_next_production("Name"): its first backend call is a
\* query; a click that succeeded is followed by time.sleep(1).
NameNext ==
    /\ npc = "next"
    /\ \E went \in BOOLEAN :
          /\ IF went
             THEN Log2(Event("click", TRUE), Sleep)
             ELSE Log1(Event("find", FALSE))
          /\ nResult' = IF went THEN "True" ELSE "False"
    /\ npc' = "done"
    /\ UNCHANGED <<nField, nDel>>
    /\ UNCHANGED nLen
    /\ UNCHANGED nonNameVars

NextName ==
    \/ NameFind
    \/ NameClick
    \/ NameClear
    \/ NameDel
    \/ NameSend
    \/ NameFallbackType
    \/ NameFbFocus
    \/ NameFbDel
    \/ NameFbSend
    \/ NameHide
    \/ NameNext

SpecName == InitName /\ [][NextName]_vars

\* ---------------------------------------------------------------- properties of the name step

\* C22: a tap or a text entry that succeeded is never immediately followed
\* by another backend call: a sleep comes between them.
C22_SettleAfterEntry == ~(IsEntry(nPrev) /\ IsCall(nLast))

\* C26: a backspace fallback that ran to its end has pressed DEL at least
\* once more than the field held characters.
C26_FallbackCoversContent == nDel = NameDels => nDel >= nLen + 1

\* ---------------------------------------------------------------- press coordinates: actions

InitGeom ==
    /\ script = "none"
    /\ pc = "idle"
    /\ RunFields
    /\ ExecIdle
    /\ TextIdle
    /\ HoldIdle
    /\ SelIdle
    /\ WaitIdle
    /\ NameIdle
    /\ gv \in GeomVariants
    /\ gpc = "start"
    /\ gSize \in ScreenSizes
    /\ \E x \in RectXs, y \in RectYs, ext \in RectExtents :
          /\ y + ext[2] <= gSize.height
          /\ gRect = [x |-> x, y |-> y, w |-> ext[1], h |-> ext[2]]
    /\ gFound = FALSE
    /\ gNudge = "none"
    /\ gCenter = <<>>
    /\ gK = 0
    /\ gUsed = <<>>
    /\ gResult = "none"
    /\ DetailIdle
    /\ ImssIdle

Used(tier, p) == Append(gUsed, [tier |-> tier, x |-> p[1], y |-> p[2]])

\* The lookup of the press-and-hold control.  Nothing found: new.py swipes at
\* the screen point (unguarded, check=False) and returns True; the others go
\* to their fallback.
GeomLookup ==
    /\ gpc = "start"
    /\ \E got \in BOOLEAN :
          /\ gFound' = got
          /\ gpc' = IF got THEN (IF Nudged(gv) THEN "nudge" ELSE "center") ELSE "point"
    /\ UNCHANGED <<gv, gSize, gRect, gNudge, gCenter, gK, gUsed, gResult>>
    /\ UNCHANGED nonGeomVars

\* _scroll_into_view: everything inside one try / except Exception: pass.
GeomNudge ==
    /\ gpc = "nudge"
    /\ \E o \in {"ok", "rect_raises", "swipe_raises"} :
          IF o = "rect_raises"
          THEN gNudge' = "raised" /\ gRect' = gRect
          ELSE IF Abs(NudgeDelta(gRect, gSize)) <= NudgeBand
          THEN gNudge' = "skipped" /\ gRect' = gRect
          ELSE IF o = "swipe_raises"
          THEN gNudge' = "raised" /\ gRect' = gRect
          ELSE gNudge' = "ok" /\ gRect' = AfterSwipe(gRect, gSize)
    /\ gpc' = "center"
    /\ UNCHANGED <<gv, gSize, gFound, gCenter, gK, gUsed, gResult>>
    /\ UNCHANGED nonGeomVars

\* cx, cy = self._center_of(el) / x, y from button.location and button.size
GeomCenter ==
    /\ gpc = "center"
    /\ \E ok \in BOOLEAN :
          IF ok
          THEN /\ gCenter' = CenterOf(gRect)
               /\ gpc' = "tier"
               /\ gK' = 1
               /\ gResult' = gResult
          ELSE /\ gCenter' = gCenter
               /\ gK' = gK
               /\ gpc' = IF GeomCenterFailure(gv) = "propagate" THEN "done" ELSE "point"
               /\ gResult' = IF GeomCenterFailure(gv) = "propagate" THEN "raised" ELSE gResult
    /\ UNCHANGED <<gv, gSize, gRect, gFound, gNudge, gUsed>>
    /\ UNCHANGED nonGeomVars

\* The next gesture on the element, inside its own try block.
GeomTier ==
    /\ gpc = "tier"
    /\ LET tier == GeomTiers(gv)[gK] IN
       \E ok \in BOOLEAN :
          /\ gUsed' = IF UsesCoordinates(tier) THEN Used(tier, gCenter) ELSE gUsed
          /\ IF ok
             THEN gpc' = "done" /\ gResult' = "True" /\ gK' = gK
             ELSE IF gK < Len(GeomTiers(gv))
             THEN gpc' = "tier" /\ gResult' = gResult /\ gK' = gK + 1
             ELSE IF GeomExhausted(gv) = "point"
             THEN gpc' = "point" /\ gResult' = gResult /\ gK' = gK
             ELSE gpc' = "done" /\ gResult' = "False" /\ gK' = gK
    /\ UNCHANGED <<gv, gSize, gRect, gFound, gNudge, gCenter>>
    /\ UNCHANGED nonGeomVars

\* The adb swipe at the fallback point: unguarded in new.py and comp.py,
\* inside try / except (return False) in captcha_long_press.
GeomPoint ==
    /\ gpc = "point"
    /\ gUsed' = Used("pointswipe", FallbackPoint(gv, gSize))
    /\ \E ok \in BOOLEAN :
          gResult' = IF ok THEN "True" ELSE IF gv = "outlook" THEN "False" ELSE "raised"
    /\ gpc' = "done"
    /\ UNCHANGED <<gv, gSize, gRect, gFound, gNudge, gCenter, gK>>
    /\ UNCHANGED nonGeomVars

NextGeom ==
    \/ GeomLookup
    \/ GeomNudge
    \/ GeomCenter
    \/ GeomTier
    \/ GeomPoint

SpecGeom == InitGeom /\ [][NextGeom]_vars

\* ---------------------------------------------------------------- properties of the press coordinates

\* C24: after a scroll nudge that did not fail, the vertical center of the
\* target is within 80 px of the vertical center of the window, wherever the
\* target started.
C24_NudgeCenters ==
    gNudge \in {"ok", "skipped"} => Abs(NudgeDelta(gRect, gSize)) <= NudgeBand

\* C25: when the target was resolved, every gesture sent with coordinates is
\* sent at the center of the target; the fallback point is pressed only when
\* nothing was resolved.
C25_PressAtCenter ==
    gFound => \A i \in 1..Len(gUsed) :
                 /\ gUsed[i].tier # "pointswipe"
                 /\ <<gUsed[i].x, gUsed[i].y>> = CenterOf(gRect)

\* ---------------------------------------------------------------- details step: actions

InitDetails ==
    /\ script = "none"
    /\ pc = "idle"
    /\ RunFields
    /\ ExecIdle
    /\ TextIdle
    /\ HoldIdle
    /\ SelIdle
    /\ WaitIdle
    /\ NameIdle
    /\ GeomIdle
    /\ dv \in DetailVariants
    /\ dpc = "lookup"
    /\ dPhase = "day"
    /\ dSel = 1
    /\ dDay = FALSE
    /\ dMonth = FALSE
    /\ dExc = "none"
    /\ dYear = "none"
    /\ dNext = "none"
    /\ dResult = "none"
    /\ ImssIdle

\* The selector loop of the running dropdown is over (break, or no selector
\* left): the month follows the day, the year entry follows the month.  month
\* is the value month_success has then.
PhaseOver(month) ==
    IF dPhase = "day"
    THEN /\ dPhase' = "month"
         /\ dSel' = 1
         /\ dpc' = "lookup"
         /\ UNCHANGED dResult
    ELSE /\ UNCHANGED <<dPhase, dSel>>
         /\ IF AfterSelections(dDay, month) = "year"
            THEN dpc' = "year" /\ UNCHANGED dResult
            ELSE dpc' = "done" /\ dResult' = "False"

\* The loop goes to its next selector, if there is one.
NextSelector(month) ==
    IF dSel < DetailSelectors
    THEN /\ dSel' = dSel + 1
         /\ dpc' = "lookup"
         /\ UNCHANGED <<dPhase, dResult>>
    ELSE PhaseOver(month)

\* find_element_safe(AppiumBy.XPATH, selector, timeout=5) for the dropdown.
DetailLookup ==
    /\ dpc = "lookup"
    /\ \E o \in LookupOutcomes :
          CASE o = "found" ->
                 /\ dpc' = "select"
                 /\ UNCHANGED <<dPhase, dSel, dExc, dResult>>
            [] o = "timeout" ->
                 /\ NextSelector(dMonth)
                 /\ UNCHANGED dExc
            [] o = "raise" ->
                 /\ dExc' = dPhase
                 /\ dpc' = "done"
                 /\ dResult' = DetailRaise(dv)
                 /\ UNCHANGED <<dPhase, dSel>>
    /\ UNCHANGED <<dv, dDay, dMonth, dYear, dNext>>
    /\ UNCHANGED nonDetailVars

\* select_dropdown_option(dropdown, value, ...): True sets the flag and
\* breaks, False goes to the next selector.
DetailSelect ==
    /\ dpc = "select"
    /\ \E ok \in BOOLEAN :
          /\ dDay' = IF dPhase = "day" THEN ok ELSE dDay
          /\ dMonth' = IF dPhase = "month" THEN ok ELSE dMonth
          /\ IF ok THEN PhaseOver(dMonth') ELSE NextSelector(dMonth')
    /\ UNCHANGED <<dv, dExc, dYear, dNext>>
    /\ UNCHANGED nonDetailVars

\* The year entry: "return False" when the field is not found or not typed.
DetailYear ==
    /\ dpc = "year"
    /\ \E y \in YearOutcomes(dv) :
          /\ dYear' = y
          /\ IF y = "ok"
             THEN dpc' = "next" /\ UNCHANGED dResult
             ELSE dpc' = "done" /\ dResult' = "False"
    /\ UNCHANGED <<dv, dPhase, dSel, dDay, dMonth, dExc, dNext>>
    /\ UNCHANGED nonDetailVars

\* return self.click_next_button("Add Details")
DetailNext ==
    /\ dpc = "next"
    /\ \E r \in {"True", "False"} :
          /\ dNext' = r
          /\ dResult' = r
    /\ dpc' = "done"
    /\ UNCHANGED <<dv, dPhase, dSel, dDay, dMonth, dExc, dYear>>
    /\ UNCHANGED nonDetailVars

NextDetails ==
    \/ DetailLookup
    \/ DetailSelect
    \/ DetailYear
    \/ DetailNext

SpecDetails == InitDetails /\ [][NextDetails]_vars

\* ---------------------------------------------------------------- properties of the details step

\* The result is decided by the year entry and the Next click alone.
YearAndNextDecide ==
    /\ dYear # "none"
    /\ dYear \in {"notfound", "typefail"} => (dResult = "False" /\ dNext = "none")
    /\ dYear = "ok" => (dNext # "none" /\ dResult = dNext)

InitImss ==
    /\ script = "none"
    /\ pc = "idle"
    /\ RunFields
    /\ ExecIdle
    /\ TextIdle
    /\ HoldIdle
    /\ SelIdle
    /\ WaitIdle
    /\ NameIdle
    /\ GeomIdle
    /\ DetailIdle
    /\ ipc = "setup"
    /\ iSel = 1
    /\ iRet = [s \in {ImssSteps[i] : i \in 1..Len(ImssSteps)} |-> "none"]
    /\ iDialog = FALSE
    /\ iTapped = FALSE
    /\ iIndicator = FALSE
    /\ iExc = FALSE
    /\ iDriver = FALSE
    /\ iDebug \in BOOLEAN
    /\ iShots = <<>>
    /\ iQuit = "none"
    /\ iResult = "none"

\* screenshot_if_debug: asks the driver only in debug mode with a driver, and
\* swallows what save_screenshot raises.
Screenshot(shots, file, drv) ==
    IF iDebug /\ drv THEN Append(shots, file) ELSE shots

\* A step of run_automation came back with r: "if not self.<step>(): return
\* False", the except clause for an exception, the next step otherwise, and
\* the success screenshot and "return True" after the last one.
StepReturns(s, r, drv) ==
    /\ iRet' = [iRet EXCEPT ![s] = r]
    /\ iSel' = 1
    /\ CASE r = "True" /\ StepIndex(s) < Len(ImssSteps) ->
              /\ ipc' = ImssSteps[StepIndex(s) + 1]
              /\ UNCHANGED <<iExc, iShots, iResult>>
         [] r = "True" /\ StepIndex(s) = Len(ImssSteps) ->
              /\ ipc' = "finally"
              /\ iShots' = Screenshot(iShots, "imss_final_success.png", drv)
              /\ iResult' = "True"
              /\ UNCHANGED iExc
         [] r = "False" ->
              /\ ipc' = "finally"
              /\ iResult' = "False"
              /\ UNCHANGED <<iExc, iShots>>
         [] r = "raised" ->
              /\ ipc' = "finally"
              /\ iExc' = TRUE
              /\ iShots' = Screenshot(iShots, "imss_error.png", drv)
              /\ iResult' = "False"

\* setup_driver, navigate_to_constancia, fill_form, submit_form. The driver is
\* set when setup_driver returned True, not set when it returned False, and
\* either when it raised.
ImssStep ==
    /\ ipc \in OuterSteps
    /\ \E r \in ImssStepOutcomes :
       \E d \in BOOLEAN :
          /\ IF ipc = "setup"
             THEN CASE r = "True" -> d = TRUE
                    [] r = "False" -> d = FALSE
                    [] r = "raised" -> TRUE
             ELSE d = iDriver
          /\ iDriver' = d
          /\ StepReturns(ipc, r, d)
    /\ UNCHANGED <<iDialog, iTapped, iIndicator, iDebug, iQuit>>
    /\ UNCHANGED nonImssVars

\* handle_dialog, the loop over dialog_selectors.
DialogLookup ==
    /\ ipc = "dialog"
    /\ ~iDialog
    /\ \E o \in ImssLookups :
          CASE o = "found" ->
                 /\ iDialog' = TRUE
                 /\ iSel' = 1
                 /\ UNCHANGED <<ipc, iRet, iExc, iShots, iResult>>
            [] o = "timeout" /\ iSel < DialogSelectors ->
                 /\ iSel' = iSel + 1
                 /\ UNCHANGED <<ipc, iRet, iDialog, iExc, iShots, iResult>>
            [] o = "timeout" /\ iSel = DialogSelectors ->
                 /\ StepReturns("dialog", WithoutDialog, iDriver)
                 /\ UNCHANGED iDialog
            [] o = "raise" ->
                 /\ StepReturns("dialog", "raised", iDriver)
                 /\ UNCHANGED iDialog
    /\ UNCHANGED <<iTapped, iIndicator, iDriver, iDebug, iQuit>>
    /\ UNCHANGED nonImssVars

\* handle_dialog, the loop over accept_selectors: find_element_safely, then
\* tap_element_safely on what it found.
DialogAccept ==
    /\ ipc = "dialog"
    /\ iDialog
    /\ \E o \in ImssLookups :
       \E t \in TapOutcomes :
          CASE o = "found" /\ t = "True" ->
                 /\ iTapped' = TRUE
                 /\ StepReturns("dialog", "True", iDriver)
            [] o = "raise" /\ t = "True" ->
                 /\ StepReturns("dialog", "raised", iDriver)
                 /\ UNCHANGED iTapped
            [] (o = "timeout" \/ (o = "found" /\ t = "False")) /\ iSel < AcceptSelectors ->
                 /\ iSel' = iSel + 1
                 /\ UNCHANGED <<ipc, iRet, iTapped, iExc, iShots, iResult>>
            [] (o = "timeout" \/ (o = "found" /\ t = "False")) /\ iSel = AcceptSelectors ->
                 /\ StepReturns("dialog", WithoutAccept, iDriver)
                 /\ UNCHANGED iTapped
            [] OTHER -> FALSE
    /\ UNCHANGED <<iDialog, iIndicator, iDriver, iDebug, iQuit>>
    /\ UNCHANGED nonImssVars

\* check_final_status, the loop over success_indicators.
StatusLookup ==
    /\ ipc = "status"
    /\ \E o \in ImssLookups :
          CASE o = "found" ->
                 /\ iIndicator' = TRUE
                 /\ StepReturns("status", "True", iDriver)
            [] o = "timeout" /\ iSel < StatusIndicators ->
                 /\ iSel' = iSel + 1
                 /\ UNCHANGED <<ipc, iRet, iIndicator, iExc, iShots, iResult>>
            [] o = "timeout" /\ iSel = StatusIndicators ->
                 /\ StepReturns("status", WithoutIndicator, iDriver)
                 /\ UNCHANGED iIndicator
            [] o = "raise" ->
                 /\ StepReturns("status", "raised", iDriver)
                 /\ UNCHANGED iIndicator
    /\ UNCHANGED <<iDialog, iTapped, iDriver, iDebug, iQuit>>
    /\ UNCHANGED nonImssVars

\* run_automation, the finally clause: driver.quit() when there is a driver,
\* whatever it raises swallowed; the value already returned stays.
ImssFinally ==
    /\ ipc = "finally"
    /\ IF iDriver
       THEN iQuit' \in {"ok", "raise"}
       ELSE UNCHANGED iQuit
    /\ ipc' = "done"
    /\ UNCHANGED <<iSel, iRet, iDialog, iTapped, iIndicator, iExc, iDriver,
                   iDebug, iShots, iResult>>
    /\ UNCHANGED nonImssVars

NextImss ==
    \/ ImssStep
    \/ DialogLookup
    \/ DialogAccept
    \/ StatusLookup
    \/ ImssFinally

SpecImss == InitImss /\ [][NextImss]_vars

\* The steps before check_final_status.
FiveSteps == {"setup", "navigate", "fill", "submit", "dialog"}

\* C36: in the IMSS workflow handle_dialog returns success when no dialog is
\* detected and failure only when a dialog was detected and no accept button
\* was tapped; check_final_status never returns failure, indicator or not; and
\* run_automation returns true exactly when setup, navigation, form filling,
\* submission and dialog handling all returned true and no exception was
\* raised.
C36_ImssResult ==
    /\ iRet["dialog"] = "False" => (iDialog /\ ~iTapped)
    /\ (iRet["dialog"] = "True" /\ ~iDialog) => ~iTapped
    /\ (iRet["dialog"] # "none" /\ ~iDialog) => iRet["dialog"] \in {"True", "raised"}
    /\ iRet["status"] # "False"
    /\ (iRet["status"] = "True" /\ ~iIndicator) => iResult = "True"
    /\ ipc = "done" =>
          /\ iResult \in {"True", "False"}
          /\ iResult = "True" <=> ((\A s \in FiveSteps : iRet[s] = "True") /\ ~iExc)

\* The run returned true with no dialog detected and no success indicator
\* found.
C36_Witness ==
    /\ ipc = "done"
    /\ iResult = "True"
    /\ ~iDialog
    /\ ~iIndicator
    /\ iRet["dialog"] = "True"
    /\ iRet["status"] = "True"

====
